---- MODULE Spec2Model ----
(***************************************************************************)
(* Session-range breakout / re-entry detector of the crypto signal checker *)
(* (detectBreakoutSignals and fetchMultipleBreakoutSignals, binance.js).   *)
(*                                                                         *)
(* Prices are integers in hundredths of the quote unit, so that 1% of an   *)
(* entry price is exact: every close inside the range is a multiple of     *)
(* 100.  Times are minutes; the k-th 5-minute candle after the range       *)
(* candle closes at rangeCloseTime + 5*k.  Arithmetic is exact: the        *)
(* rounding of IEEE doubles is not represented.                            *)
(***************************************************************************)
EXTENDS Integers, Sequences, FiniteSets, TLC

VARIABLES
    range,                      \* the session range of the day: [high, low, closeTime]
    candlesAfterRange,          \* 5m candles of the detection window scanned so far
    validBreakoutReentryPairs,  \* signals of the day, in creation order
    firstBreakoutIndex,         \* 1-based index of the recorded breakout, 0 = null
    firstBreakoutCandle,
    firstBreakoutTime,
    firstBreakoutPrice,
    firstBreakoutDirection,
    hasOpenPosition,
    signals,                    \* detectBreakoutSignals: signals
    breakoutsWithoutReentry,    \* detectBreakoutSignals: breakoutsWithoutReentry
    additionalCandles,          \* look-ahead: candles fetched from the re-entry time on
    pendingSignals,             \* look-ahead: indices in signals of the signals still to check
    pc,                         \* position of the refresh: idle, or inside detectBreakoutSignals
    market,                     \* the exchange: the 5m candles closed since the range candle
    cache,                      \* localStorage: the signals stored under the cache key
    cachedData,                 \* fetchMultipleBreakoutSignals: cachedData, << >> = null
    sinceDate,                  \* detectBreakoutSignals: sinceDate, 0 = null
    forceRefresh,
    returned,                   \* what the last refresh returned to its caller
    everResolved,               \* every win or loss a refresh has returned so far
    httpCall,                   \* the request function running: klines, price or none
    httpPc,                     \* its position: idle, fetch, waiting, returned, failed
    requests,                   \* HTTP requests issued since the caller's call
    waited,                     \* seconds slept since the caller's call
    waitTime,                   \* seconds to sleep before the retry
    status,                     \* response.status of the last response, 0 = none yet
    error,                      \* the error thrown to the caller
    now,                        \* Date.now() in minutes, as the RSI functions see it
    rsiHistory,                 \* the exchange: RSI of the closed 1h candles, per symbol
    oversoldCache,              \* localStorage: the entry of the oversold cache key
    rsiCache,                   \* localStorage: the entry of the RSI cache key
    batchPc,                    \* idle, oversold (in its loop) or rsi (in its loop)
    gate,                       \* what the last refresh found in the cache and decided
    oversoldCachedData,         \* fetchOversoldHistory: cachedData, << >> = null
    lastTimestamp,              \* fetchOversoldHistory: lastTimestamp, 0 = null
    allEvents,                  \* fetchOversoldHistory: allEvents
    results,                    \* fetchMultipleRSI: results
    symbolIndex,                \* position of the loop over symbols
    requested,                  \* symbols requested from the exchange by this refresh
    failedSymbols,              \* symbols whose request failed in this refresh
    batchReturned,              \* what the last refresh returned
    klines,                     \* the candle array the exchange returned: [closeTime, close]
    rsiNow,                     \* Date.now() at the RSI fetch
    rsiOut,                     \* calculateRSI: whether it ran, threw, and its array
    readingOut,                 \* fetchRSIFromBinance: whether it ran, threw, and its reading
    storage,                    \* localStorage: per cache key, the entry or none
    storageNow,                 \* Date.now() at the cache calls
    lastSet,                    \* the last CacheUtils.set call and what became of it
    setReturned,                \* what the refresh around that call returned
    loopFn,                     \* the batch function running, or none
    loopPc,                     \* idle, issue, await, delay or done
    loopIndex,                  \* position of the loop over symbols
    inFlight,                   \* symbols whose exchange request is in flight
    outcomes,                   \* per symbol processed so far, whether it succeeded
    delayElapsed,               \* the delay after the last symbol has elapsed
    raceCache,                  \* localStorage: signals stored under the breakout key
    raceMarket,                 \* signals the exchange data yields so far
    racePc,                     \* per caller: idle, fetching or merged
    raceCached,                 \* per caller: cachedData
    raceFetched,                \* per caller: allSignals
    raceRequests,               \* per caller: exchange requests issued by its refresh
    lastWriter,                 \* the caller whose CacheUtils.set ran last, 0 = none
    breakoutSignalsData,        \* App: breakoutSignals.data, the keys of the shown signals
    notifiedBreakouts,          \* App: notifiedBreakoutsRef.current
    scheduledChecks,            \* the setTimeout queue of checkAndNotifyNewBreakouts calls
    pendingSends,               \* per key: sendNotification calls that have not resolved
    sentNotifications,          \* per key: BREAKOUT notifications shown
    refreshesDone,              \* refreshes of fetchBreakoutSignals that have returned
    exchange,                   \* fetch5MinKlines: the 5m candles the exchange holds
    fetchArgs,                  \* fetch5MinKlines: limit, startTime
    fetchPc,                    \* fetch5MinKlines: "idle", "loop", "sort", "returned"
    allKlines,                  \* fetch5MinKlines: allKlines
    endTime,                    \* fetch5MinKlines: endTime, 0 = null
    batchRequests,              \* fetch5MinKlines: getBinanceKlines calls issued
    finalData                   \* fetch5MinKlines: the returned candles

vars == <<range, candlesAfterRange, validBreakoutReentryPairs, firstBreakoutIndex,
          firstBreakoutCandle, firstBreakoutTime, firstBreakoutPrice,
          firstBreakoutDirection, hasOpenPosition, signals, breakoutsWithoutReentry,
          additionalCandles, pendingSignals, pc, market, cache, cachedData, sinceDate,
          forceRefresh, returned, everResolved, httpCall, httpPc, requests, waited,
          waitTime, status, error, now, rsiHistory, oversoldCache, rsiCache, batchPc,
          gate, oversoldCachedData, lastTimestamp, allEvents, results, symbolIndex,
          requested, failedSymbols, batchReturned, klines, rsiNow, rsiOut, readingOut,
          storage, storageNow, lastSet, setReturned, loopFn, loopPc, loopIndex, inFlight,
          outcomes, delayElapsed, raceCache, raceMarket, racePc, raceCached, raceFetched,
          raceRequests, lastWriter, breakoutSignalsData, notifiedBreakouts,
          scheduledChecks, pendingSends, sentNotifications, refreshesDone, exchange,
          fetchArgs, fetchPc, allKlines, endTime, batchRequests, finalData>>

rsiVars == <<klines, rsiNow, rsiOut, readingOut>>

storageVars == <<storage, storageNow, lastSet, setReturned>>

loopVars == <<loopFn, loopPc, loopIndex, inFlight, outcomes, delayElapsed>>

raceVars == <<raceCache, raceMarket, racePc, raceCached, raceFetched, raceRequests,
              lastWriter>>

notifVars == <<breakoutSignalsData, notifiedBreakouts, scheduledChecks, pendingSends,
               sentNotifications, refreshesDone>>

fetchVars == <<exchange, fetchArgs, fetchPc, allKlines, endTime, batchRequests, finalData>>

extraVars == <<notifVars, fetchVars>>

auxVars == <<rsiVars, storageVars, loopVars, raceVars, extraVars>>

batchVars == <<now, rsiHistory, oversoldCache, rsiCache, batchPc, gate, oversoldCachedData,
               lastTimestamp, allEvents, results, symbolIndex, requested, failedSymbols,
               batchReturned>>

httpVars == <<httpCall, httpPc, requests, waited, waitTime, status, error>>

breakoutVars == <<range, candlesAfterRange, validBreakoutReentryPairs, firstBreakoutIndex,
                  firstBreakoutCandle, firstBreakoutTime, firstBreakoutPrice,
                  firstBreakoutDirection, hasOpenPosition, signals,
                  breakoutsWithoutReentry, additionalCandles, pendingSignals, pc, market,
                  cache, cachedData, sinceDate, forceRefresh, returned, everResolved>>

refreshVars == <<cache, cachedData, sinceDate, forceRefresh, returned, everResolved>>

scanVars == <<firstBreakoutIndex, firstBreakoutCandle, firstBreakoutTime,
              firstBreakoutPrice, firstBreakoutDirection>>

----------------------------------------------------------------------------
(* Bounds and inputs *)

MaxCandles == 4         \* 5m candles closed since the range candle: the scanned ones,
                        \* then those only the look-ahead sees

FiveMin == 5            \* a 5-minute candle, in minutes
OneMinute == 1          \* 60000 ms, in minutes
OneHour == 60
OneDay == 1440

\* below the range, its low, its high, just above it, far above it
PriceLevels == {9450, 9500, 10000, 10050, 10200}

Below == CHOOSE x \in PriceLevels : \A y \in PriceLevels : x <= y
FarAbove == CHOOSE x \in PriceLevels : \A y \in PriceLevels : x >= y
Above == CHOOSE x \in PriceLevels \ {FarAbove} : \A y \in PriceLevels \ {FarAbove} : x >= y

SessionRanges == {[high |-> 10000, low |-> 9500, closeTime |-> 479]}

NullCandle == [closeTime |-> 0, close |-> 0, high |-> 0, low |-> 0]

\* The candles of the exchange, low <= close <= high: a close at any level but
\* the far one, with no wick or a wick that leaves the range on either side,
\* and one candle far above the range.
CandleShapes ==
    {s \in [close : PriceLevels \ {FarAbove}, high : PriceLevels, low : PriceLevels] :
        /\ s.low \in {s.close, Below}
        /\ s.high \in {s.close, Above}}
    \cup {[close |-> FarAbove, high |-> FarAbove, low |-> FarAbove]}

\* formatKlinesData: the k-th 5m candle after the range candle
Candle(k, s) ==
    [closeTime |-> range.closeTime + FiveMin * k,
     close |-> s.close, high |-> s.high, low |-> s.low]

ShapeOf(c) == [close |-> c.close, high |-> c.high, low |-> c.low]

Abs(x) == IF x < 0 THEN 0 - x ELSE x

----------------------------------------------------------------------------
(* detectBreakoutSignals: the scan of one session day *)

\* a breakout taken from the wick instead of the close
isBreakoutAbove_wick(candle, r) == candle.high > r.high

isBreakoutAbove(candle, r) == candle.close > r.high
isBreakoutBelow(candle, r) == candle.close < r.low

isReentry(candle, r) == candle.close <= r.high /\ candle.close >= r.low

\* take-profit looked at before stop-loss
PositionResult_tpFirst(lastSignal, candle) ==
    IF lastSignal.breakoutDirection = "long" /\ candle.high >= lastSignal.takeProfit
        THEN "win"
    ELSE IF lastSignal.breakoutDirection = "short" /\ candle.low <= lastSignal.takeProfit
        THEN "win"
    ELSE IF lastSignal.breakoutDirection = "long" /\ candle.low <= lastSignal.stopLoss
        THEN "loss"
    ELSE IF lastSignal.breakoutDirection = "short" /\ candle.high >= lastSignal.stopLoss
        THEN "loss"
    ELSE "pending"

\* a level counts only when it is crossed, not when it is touched
PositionResult_strict(lastSignal, candle) ==
    IF lastSignal.breakoutDirection = "long" /\ candle.low < lastSignal.stopLoss
        THEN "loss"
    ELSE IF lastSignal.breakoutDirection = "short" /\ candle.high > lastSignal.stopLoss
        THEN "loss"
    ELSE IF lastSignal.breakoutDirection = "long" /\ candle.high > lastSignal.takeProfit
        THEN "win"
    ELSE IF lastSignal.breakoutDirection = "short" /\ candle.low < lastSignal.takeProfit
        THEN "win"
    ELSE "pending"

\* lines 1534-1562: does this candle close the open position, and how
PositionResult(lastSignal, candle) ==
    IF lastSignal.breakoutDirection = "long" /\ candle.low <= lastSignal.stopLoss
        THEN "loss"
    ELSE IF lastSignal.breakoutDirection = "short" /\ candle.high >= lastSignal.stopLoss
        THEN "loss"
    ELSE IF lastSignal.breakoutDirection = "long" /\ candle.high >= lastSignal.takeProfit
        THEN "win"
    ELSE IF lastSignal.breakoutDirection = "short" /\ candle.low <= lastSignal.takeProfit
        THEN "win"
    ELSE "pending"

\* the direction of the recorded breakout kept as the direction of the trade
ReentryDirection_breakoutSide(candle, prevCandle, hasPrev, breakoutPrice, breakoutDirection, r) ==
    breakoutDirection

\* lines 1619-1656: direction of the trade, from where the re-entry comes
ReentryDirection(candle, prevCandle, hasPrev, breakoutPrice, breakoutDirection, r) ==
    IF candle.low < r.low THEN "long"
    ELSE IF candle.high > r.high THEN "short"
    ELSE IF hasPrev /\ (prevCandle.close < r.low \/ prevCandle.low < r.low) THEN "long"
    ELSE IF hasPrev /\ (prevCandle.close > r.high \/ prevCandle.high > r.high) THEN "short"
    ELSE IF breakoutPrice > r.high THEN "short"
    ELSE IF breakoutPrice < r.low THEN "long"
    ELSE breakoutDirection

\* only the breakout candle's low is used
LowestLow_breakoutCandle(cs, lowestPrice) == lowestPrice

RECURSIVE LowestLow(_, _)
LowestLow(cs, lowestPrice) ==
    IF cs = << >> THEN lowestPrice
    ELSE LowestLow(Tail(cs), IF Head(cs).low < lowestPrice THEN Head(cs).low ELSE lowestPrice)

\* only the breakout candle's high is used
HighestHigh_breakoutCandle(cs, highestPrice) == highestPrice

RECURSIVE HighestHigh(_, _)
HighestHigh(cs, highestPrice) ==
    IF cs = << >> THEN highestPrice
    ELSE HighestHigh(Tail(cs), IF Head(cs).high > highestPrice THEN Head(cs).high ELSE highestPrice)

\* line 1671: 1% of the entry price
maxAllowedRisk(currentEntryPrice) == currentEntryPrice \div 100

\* the 1% cap left out
RiskAndStop_uncapped(currentDirection, currentEntryPrice, candlesDuringBreakout) ==
    IF currentDirection = "long"
    THEN LET lowestPrice == LowestLow(candlesDuringBreakout, candlesDuringBreakout[1].low)
         IN  [risk |-> currentEntryPrice - lowestPrice, stopLoss |-> lowestPrice]
    ELSE LET highestPrice == HighestHigh(candlesDuringBreakout, candlesDuringBreakout[1].high)
         IN  [risk |-> highestPrice - currentEntryPrice, stopLoss |-> highestPrice]

\* lines 1673-1713: [risk, stopLoss]
RiskAndStop(currentDirection, currentEntryPrice, candlesDuringBreakout) ==
    IF currentDirection = "long"
    THEN LET lowestPrice == LowestLow(candlesDuringBreakout, candlesDuringBreakout[1].low)
             calculatedRisk == currentEntryPrice - lowestPrice
         IN  IF calculatedRisk > maxAllowedRisk(currentEntryPrice)
             THEN [risk |-> maxAllowedRisk(currentEntryPrice),
                   stopLoss |-> currentEntryPrice - maxAllowedRisk(currentEntryPrice)]
             ELSE [risk |-> calculatedRisk, stopLoss |-> lowestPrice]
    ELSE LET highestPrice == HighestHigh(candlesDuringBreakout, candlesDuringBreakout[1].high)
             calculatedRisk == highestPrice - currentEntryPrice
         IN  IF calculatedRisk > maxAllowedRisk(currentEntryPrice)
             THEN [risk |-> maxAllowedRisk(currentEntryPrice),
                   stopLoss |-> currentEntryPrice + maxAllowedRisk(currentEntryPrice)]
             ELSE [risk |-> calculatedRisk, stopLoss |-> highestPrice]

\* a reward equal to the risk
TakeProfit_oneToOne(currentDirection, currentEntryPrice, currentRisk) ==
    IF currentDirection = "long"
    THEN currentEntryPrice + currentRisk
    ELSE currentEntryPrice - currentRisk

\* lines 1717-1722
TakeProfit(currentDirection, currentEntryPrice, currentRisk) ==
    IF currentDirection = "long"
    THEN currentEntryPrice + (currentRisk * 2)
    ELSE currentEntryPrice - (currentRisk * 2)

\* lines 1728-1740
NewSignal(cs, i, fbIndex, fbCandle, fbTime, fbPrice, fbDirection, r) ==
    LET candle == cs[i]
        currentDirection ==
            ReentryDirection(candle, IF i > 1 THEN cs[i - 1] ELSE NullCandle, i > 1,
                             fbPrice, fbDirection, r)
        rs == RiskAndStop(currentDirection, candle.close, SubSeq(cs, fbIndex, i))
    IN  [breakoutTime |-> fbTime,
         breakoutPrice |-> fbPrice,
         breakoutDirection |-> currentDirection,
         reentryTime |-> candle.closeTime,
         reentryPrice |-> candle.close,
         entryPrice |-> candle.close,
         stopLoss |-> rs.stopLoss,
         takeProfit |-> TakeProfit(currentDirection, candle.close, rs.risk),
         result |-> "pending",
         breakoutCandle |-> fbCandle,
         reentryCandle |-> candle]

----------------------------------------------------------------------------
(* The loop body of the scan, lines 1521-1757, for candle number i *)

\* the last signal is evaluated against every candle, resolved or not
AfterPositionCheck_recheck(pairs, open, candle) ==
    IF pairs = << >> THEN [pairs |-> pairs, open |-> FALSE, skip |-> FALSE]
    ELSE LET res == PositionResult([pairs[Len(pairs)] EXCEPT !.result = "pending"], candle)
         IN  IF res = "pending"
             THEN [pairs |-> pairs, open |-> open, skip |-> open]
             ELSE [pairs |-> [pairs EXCEPT ![Len(pairs)].result = res],
                   open |-> FALSE, skip |-> FALSE]

\* an open position does not keep the scan from the candle
AfterPositionCheck_scanOn(pairs, open, candle) ==
    IF ~open THEN [pairs |-> pairs, open |-> FALSE, skip |-> FALSE]
    ELSE IF pairs # << >> /\ pairs[Len(pairs)].result = "pending"
    THEN LET res == PositionResult(pairs[Len(pairs)], candle)
         IN  IF res = "pending"
             THEN [pairs |-> pairs, open |-> TRUE, skip |-> FALSE]
             ELSE [pairs |-> [pairs EXCEPT ![Len(pairs)].result = res],
                   open |-> FALSE, skip |-> FALSE]
    ELSE [pairs |-> pairs, open |-> FALSE, skip |-> FALSE]

\* lines 1530-1576: [pairs, open, skip] after the open-position check
AfterPositionCheck(pairs, open, candle) ==
    IF ~open THEN [pairs |-> pairs, open |-> FALSE, skip |-> FALSE]
    ELSE IF pairs # << >> /\ pairs[Len(pairs)].result = "pending"
    THEN LET res == PositionResult(pairs[Len(pairs)], candle)
         IN  IF res = "pending"
             THEN [pairs |-> pairs, open |-> TRUE, skip |-> TRUE]
             ELSE [pairs |-> [pairs EXCEPT ![Len(pairs)].result = res],
                   open |-> FALSE, skip |-> FALSE]
    ELSE [pairs |-> pairs, open |-> FALSE, skip |-> FALSE]

\* the tracker of the recorded breakout, lines 1511-1515
NoBreakout ==
    [index |-> 0, candle |-> NullCandle, time |-> 0, price |-> 0, direction |-> "null"]

\* lines 1582-1586
RecordBreakout(i, candle, r) ==
    [index |-> i, candle |-> candle, time |-> candle.closeTime, price |-> candle.close,
     direction |-> IF isBreakoutAbove(candle, r) THEN "short" ELSE "long"]

\* the latest candle outside the range replaces the recorded breakout
BreakoutContinues_reset(fb, i, candle, r) == RecordBreakout(i, candle, r)

\* lines 1596-1599: a candle that still closes outside the range while a breakout waits
BreakoutContinues(fb, i, candle, r) == fb

\* lines 1579-1599 and 1751-1755: the tracker after candle i
FirstBreakoutAfter(fb, i, candle, r) ==
    IF fb.index = 0
    THEN IF isBreakoutAbove(candle, r) \/ isBreakoutBelow(candle, r)
         THEN RecordBreakout(i, candle, r)
         ELSE fb
    ELSE IF isBreakoutAbove(candle, r) \/ isBreakoutBelow(candle, r)
    THEN BreakoutContinues(fb, i, candle, r)
    ELSE IF isReentry(candle, r) THEN NoBreakout
    ELSE fb

\* lines 1601-1756: does candle i create a signal
CreatesSignal(fb, candle, r) ==
    /\ fb.index # 0
    /\ ~(isBreakoutAbove(candle, r) \/ isBreakoutBelow(candle, r))
    /\ isReentry(candle, r)

ScanCandle(s) ==
    /\ pc = "scan"
    /\ IF Len(candlesAfterRange) < Len(market)
       THEN s = ShapeOf(market[Len(candlesAfterRange) + 1]) /\ UNCHANGED market
       ELSE /\ Len(market) < MaxCandles
            /\ market' = Append(market, Candle(Len(market) + 1, s))
    /\ LET i == Len(candlesAfterRange) + 1
           candle == Candle(i, s)
           cs == Append(candlesAfterRange, candle)
           pos == AfterPositionCheck(validBreakoutReentryPairs, hasOpenPosition, candle)
           fb == [index |-> firstBreakoutIndex, candle |-> firstBreakoutCandle,
                  time |-> firstBreakoutTime, price |-> firstBreakoutPrice,
                  direction |-> firstBreakoutDirection]
           fbNext == FirstBreakoutAfter(fb, i, candle, range)
       IN  /\ candlesAfterRange' = cs
           /\ IF pos.skip
              THEN \* position still open, skip this candle
                   UNCHANGED <<validBreakoutReentryPairs, hasOpenPosition, scanVars>>
              ELSE /\ IF CreatesSignal(fb, candle, range)
                      THEN /\ validBreakoutReentryPairs' =
                                  Append(pos.pairs,
                                         NewSignal(cs, i, fb.index, fb.candle, fb.time,
                                                   fb.price, fb.direction, range))
                           /\ hasOpenPosition' = TRUE
                      ELSE /\ validBreakoutReentryPairs' = pos.pairs
                           /\ hasOpenPosition' = pos.open
                   /\ firstBreakoutIndex' = fbNext.index
                   /\ firstBreakoutCandle' = fbNext.candle
                   /\ firstBreakoutTime' = fbNext.time
                   /\ firstBreakoutPrice' = fbNext.price
                   /\ firstBreakoutDirection' = fbNext.direction
    /\ UNCHANGED <<auxVars, httpVars, batchVars, range, signals, breakoutsWithoutReentry, additionalCandles,
                   pendingSignals, pc, refreshVars>>

----------------------------------------------------------------------------
(* After the scan of the day, lines 1767-1875 *)

\* lines 1776-1787 and 1850-1861
BreakoutWithoutReentry(r, fbTime, fbPrice, fbDirection) ==
    [rangeHigh |-> r.high,
     rangeLow |-> r.low,
     rangeCloseTime |-> r.closeTime,
     breakoutTime |-> fbTime,
     breakoutPrice |-> fbPrice,
     breakoutDirection |-> IF fbDirection = "long" THEN "below" ELSE "above",
     isAbove |-> fbPrice > r.high,
     isBelow |-> fbPrice < r.low]

\* any earlier signal of the day counts as the re-entry of the waiting breakout
hasReentry_anyPair(pairs, fbTime) == pairs # << >>

\* lines 1770-1772
hasReentry(pairs, fbTime) ==
    \E k \in DOMAIN pairs : Abs(pairs[k].breakoutTime - fbTime) < OneMinute

\* lines 1469-1500: the candles that close outside the range
potentialBreakouts(cs, r) ==
    {j \in DOMAIN cs : isBreakoutAbove(cs[j], r) \/ isBreakoutBelow(cs[j], r)}

\* line 1809: pairs ordered by breakout time (stable insertion)
RECURSIVE SortByBreakoutTime(_)
SortByBreakoutTime(pairs) ==
    IF Len(pairs) <= 1 THEN pairs
    ELSE LET rest == SortByBreakoutTime(SubSeq(pairs, 1, Len(pairs) - 1))
             last == pairs[Len(pairs)]
             before == {k \in DOMAIN rest : rest[k].breakoutTime <= last.breakoutTime}
         IN  IF \A k \in DOMAIN rest : k \in before
             THEN Append(rest, last)
             ELSE LET cut == CHOOSE k \in DOMAIN rest :
                                 /\ rest[k].breakoutTime > last.breakoutTime
                                 /\ \A m \in 1..(k - 1) : rest[m].breakoutTime <= last.breakoutTime
                  IN  SubSeq(rest, 1, cut - 1) \o <<last>> \o SubSeq(rest, cut, Len(rest))

\* lines 1821-1836
SignalOf(r, pair) ==
    [rangeHigh |-> r.high,
     rangeLow |-> r.low,
     rangeCloseTime |-> r.closeTime,
     breakoutTime |-> pair.breakoutTime,
     breakoutPrice |-> pair.breakoutPrice,
     breakoutDirection |-> pair.breakoutDirection,
     reentryTime |-> pair.reentryTime,
     reentryPrice |-> pair.reentryPrice,
     entryPrice |-> pair.entryPrice,
     stopLoss |-> pair.stopLoss,
     takeProfit |-> pair.takeProfit,
     result |-> pair.result]

\* one signal per day: only the first pair is kept
SignalsOf_firstOnly(r, pairs) ==
    IF pairs = << >> THEN << >> ELSE <<SignalOf(r, pairs[1])>>

SignalsOf(r, pairs) == [k \in DOMAIN pairs |-> SignalOf(r, pairs[k])]

\* lines 1767-1804
ReportedAfterLoop(pairs, r, fbIndex, fbTime, fbPrice, fbDirection) ==
    IF fbIndex # 0 /\ ~hasReentry(pairs, fbTime)
    THEN <<BreakoutWithoutReentry(r, fbTime, fbPrice, fbDirection)>>
    ELSE << >>

\* lines 1838-1875
ReportedWhenNoPairs(cs, pairs, r, fbIndex, fbTime, fbPrice, fbDirection) ==
    IF pairs = << >> /\ potentialBreakouts(cs, r) # {} /\ fbIndex # 0
    THEN <<BreakoutWithoutReentry(r, fbTime, fbPrice, fbDirection)>>
    ELSE << >>

\* line 1881: the signals still pending once every day is scanned
RECURSIVE PendingFrom(_, _)
PendingFrom(sigs, k) ==
    IF k > Len(sigs) THEN << >>
    ELSE IF sigs[k].result = "pending" THEN <<k>> \o PendingFrom(sigs, k + 1)
    ELSE PendingFrom(sigs, k + 1)

PendingIndices(sigs) == PendingFrom(sigs, 1)

\* the day had no 5m candles in its window: lines 1437-1440
NoCandles ==
    /\ pc = "scan"
    /\ candlesAfterRange = << >>
    /\ market = << >>
    /\ pc' = "lookahead"
    /\ pendingSignals' = PendingIndices(signals)
    /\ UNCHANGED <<auxVars, httpVars, batchVars, range, candlesAfterRange, validBreakoutReentryPairs, scanVars,
                   hasOpenPosition, signals, breakoutsWithoutReentry, additionalCandles,
                   market, refreshVars>>

FinishDay ==
    /\ pc = "scan"
    /\ candlesAfterRange # << >>
    /\ Len(candlesAfterRange) = Len(market)
    /\ breakoutsWithoutReentry' =
           breakoutsWithoutReentry
           \o ReportedAfterLoop(validBreakoutReentryPairs, range, firstBreakoutIndex,
                                firstBreakoutTime, firstBreakoutPrice, firstBreakoutDirection)
           \o ReportedWhenNoPairs(candlesAfterRange, validBreakoutReentryPairs, range,
                                  firstBreakoutIndex, firstBreakoutTime, firstBreakoutPrice,
                                  firstBreakoutDirection)
    /\ validBreakoutReentryPairs' = SortByBreakoutTime(validBreakoutReentryPairs)
    /\ signals' = signals \o SignalsOf(range, SortByBreakoutTime(validBreakoutReentryPairs))
    /\ pendingSignals' =
           PendingIndices(signals \o SignalsOf(range, SortByBreakoutTime(validBreakoutReentryPairs)))
    /\ pc' = "lookahead"
    /\ UNCHANGED <<auxVars, httpVars, batchVars, range, candlesAfterRange, scanVars, hasOpenPosition, additionalCandles,
                   market, refreshVars>>

----------------------------------------------------------------------------
(* The look-ahead over pending signals, lines 1880-1947 *)

\* the 5m candles that closed after the scanned ones
LaterShapes(cs) == UNION {[1..n -> CandleShapes] : n \in 0..(MaxCandles - Len(cs))}

LaterCandles(cs, later) ==
    [k \in DOMAIN later |-> Candle(Len(cs) + k, later[k])]

\* fetch5MinKlines(symbol, 2000, startTime): the candles closing at or after startTime
CandlesFrom(history, startTime) ==
    SelectSeq(history, LAMBDA c : c.closeTime >= startTime)

\* lines 1898-1905: index of the re-entry candle, 0 when it is not found
RECURSIVE reentryIndexFrom(_, _, _)
reentryIndexFrom(cs, reentryTime, j) ==
    IF j > Len(cs) THEN 0
    ELSE IF Abs(cs[j].closeTime - reentryTime) < OneMinute THEN j
    ELSE reentryIndexFrom(cs, reentryTime, j + 1)

\* lines 1919-1939: what one candle decides for a pending signal
LookaheadResult(pendingSignal, checkCandle) ==
    IF pendingSignal.breakoutDirection = "long" /\ checkCandle.low <= pendingSignal.stopLoss
        THEN "loss"
    ELSE IF pendingSignal.breakoutDirection = "short"
            /\ checkCandle.high >= pendingSignal.stopLoss
        THEN "loss"
    ELSE IF pendingSignal.breakoutDirection = "long"
            /\ checkCandle.high >= pendingSignal.takeProfit
        THEN "win"
    ELSE IF pendingSignal.breakoutDirection = "short"
            /\ checkCandle.low <= pendingSignal.takeProfit
        THEN "win"
    ELSE "pending"

\* lines 1918-1940: the loop over candlesAfterReentry, left at the first hit
RECURSIVE CheckCandles(_, _)
CheckCandles(pendingSignal, candlesAfterReentry) ==
    IF candlesAfterReentry = << >> THEN "pending"
    ELSE LET res == LookaheadResult(pendingSignal, Head(candlesAfterReentry))
         IN  IF res # "pending" THEN res
             ELSE CheckCandles(pendingSignal, Tail(candlesAfterReentry))

\* lines 1885-1941, one pending signal
LookaheadSignal(later) ==
    /\ pc = "lookahead"
    /\ pendingSignals # << >>
    /\ LET k == Head(pendingSignals)
           pendingSignal == signals[k]
           fetched == CandlesFrom(market \o LaterCandles(market, later),
                                  pendingSignal.reentryTime)
           reentryIndex == reentryIndexFrom(fetched, pendingSignal.reentryTime, 1)
       IN  /\ additionalCandles' = fetched
           /\ IF fetched = << >> \/ reentryIndex = 0
              THEN UNCHANGED signals
              ELSE signals' =
                       [signals EXCEPT ![k].result =
                           CheckCandles(pendingSignal,
                                        SubSeq(fetched, reentryIndex + 1, Len(fetched)))]
    /\ market' = market \o LaterCandles(market, later)
    /\ pendingSignals' = Tail(pendingSignals)
    /\ UNCHANGED <<auxVars, httpVars, batchVars, range, candlesAfterRange, validBreakoutReentryPairs, scanVars,
                   hasOpenPosition, breakoutsWithoutReentry, pc, refreshVars>>

\* lines 1949-1953
Return ==
    /\ pc = "lookahead"
    /\ pendingSignals = << >>
    /\ pc' = "done"
    /\ UNCHANGED <<auxVars, httpVars, batchVars, range, candlesAfterRange, validBreakoutReentryPairs, scanVars,
                   hasOpenPosition, signals, breakoutsWithoutReentry, additionalCandles,
                   pendingSignals, market, refreshVars>>

----------------------------------------------------------------------------
(* fetchMultipleBreakoutSignals: the cache-backed refresh, lines 1968-2088 *)

\* Date.now() of a refresh: one minute after the last closed 5m candle
Now == IF market = << >> THEN range.closeTime + OneMinute
       ELSE market[Len(market)].closeTime + OneMinute

\* the start of the period before the current one
latestExpectedCandleTime_previousPeriod(nowT, interval) ==
    (nowT \div interval) * interval - interval

\* getLatestExpectedCandleTime(interval) called at time nowT
latestExpectedCandleTime(nowT, interval) == (nowT \div interval) * interval

\* hasNewCandleAvailable(lastCandleTime, interval) called at time nowT
hasNewCandleAvailableAt(nowT, lastCandleTime, interval) ==
    latestExpectedCandleTime(nowT, interval) > lastCandleTime

\* getLatestExpectedCandleTime('5m')
getLatestExpectedCandleTime == latestExpectedCandleTime(Now, FiveMin)

\* hasNewCandleAvailable(lastCandleTime, '5m')
hasNewCandleAvailable(lastCandleTime) ==
    hasNewCandleAvailableAt(Now, lastCandleTime, FiveMin)

\* Math.max(...cachedData.map(signal => reentryTime.getTime()))
maxTimestamp(data) ==
    CHOOSE t \in {data[k].reentryTime : k \in DOMAIN data} :
        \A k \in DOMAIN data : data[k].reentryTime <= t

\* the key of the duplicate filter (one symbol)
SignalKey(signal) == <<signal.reentryTime, signal.breakoutTime>>

\* the wins and losses of a returned list, by key
Resolved(data) ==
    {[key |-> SignalKey(data[k]), result |-> data[k].result] :
        k \in {j \in DOMAIN data : data[j].result # "pending"}}

\* the locals of detectBreakoutSignals as a call finds them
DetectLocalsReset ==
    /\ candlesAfterRange' = << >>
    /\ validBreakoutReentryPairs' = << >>
    /\ firstBreakoutIndex' = NoBreakout.index
    /\ firstBreakoutCandle' = NoBreakout.candle
    /\ firstBreakoutTime' = NoBreakout.time
    /\ firstBreakoutPrice' = NoBreakout.price
    /\ firstBreakoutDirection' = NoBreakout.direction
    /\ hasOpenPosition' = FALSE
    /\ signals' = << >>
    /\ breakoutsWithoutReentry' = << >>
    /\ additionalCandles' = << >>
    /\ pendingSignals' = << >>

\* lines 1984-2000: is the cached list returned without a fetch, at time nowT
ReturnsCachedSignals(cached, force, nowT) ==
    /\ cached # << >>
    /\ ~force
    /\ ~hasNewCandleAvailableAt(nowT, maxTimestamp(cached), FiveMin)

\* lines 1976-2017: read the cache, return it or call detectBreakoutSignals
StartRefresh(force, expired) ==
    /\ pc = "idle"
    /\ expired => cache # << >>
    /\ LET cached == IF expired THEN << >> ELSE cache
       IN  /\ cache' = cached
           /\ forceRefresh' = force
           /\ IF ReturnsCachedSignals(cached, force, Now)
              THEN /\ returned' = cached
                   /\ everResolved' = everResolved \cup Resolved(cached)
                   /\ UNCHANGED <<pc, cachedData, sinceDate>>
              ELSE /\ cachedData' = cached
                   /\ sinceDate' = IF cached # << >>
                                   THEN maxTimestamp(cached) - OneMinute
                                   ELSE 0
                   /\ pc' = "scan"
                   /\ UNCHANGED <<returned, everResolved>>
    /\ UNCHANGED <<auxVars, httpVars, batchVars, range, candlesAfterRange, validBreakoutReentryPairs, scanVars,
                   hasOpenPosition, signals, breakoutsWithoutReentry, additionalCandles,
                   pendingSignals, market>>

\* line 1314: a session day whose range closed before startTime is skipped
DaySkipped(r, since) == since # 0 /\ r.closeTime < since

DayFiltered ==
    /\ pc = "scan"
    /\ DaySkipped(range, sinceDate)
    /\ pc' = "lookahead"
    /\ UNCHANGED <<auxVars, httpVars, batchVars, range, candlesAfterRange, validBreakoutReentryPairs, scanVars,
                   hasOpenPosition, signals, breakoutsWithoutReentry, additionalCandles,
                   pendingSignals, market, refreshVars>>

\* lines 2031-2039
mergedSignals(cached, force, allSignals) ==
    IF cached # << >> /\ ~force THEN cached \o allSignals
    ELSE IF cached # << >> /\ force /\ allSignals # << >> THEN cached \o allSignals
    ELSE allSignals

\* the merged list is left in the order of the scan, earliest first
SortByReentryTime_unsorted(data) == data

\* lines 2049-2051: a stable sort, latest re-entry first
RECURSIVE SortByReentryTime(_)
SortByReentryTime(data) ==
    IF data = << >> THEN << >>
    ELSE LET latest == maxTimestamp(data)
         IN  SelectSeq(data, LAMBDA x : x.reentryTime = latest)
             \o SortByReentryTime(SelectSeq(data, LAMBDA x : x.reentryTime # latest))

\* lines 2057-2065: the first signal of each key is kept
uniqueSignals(data) ==
    SelectSeq([k \in DOMAIN data |->
                  IF \E j \in 1..(k - 1) : SignalKey(data[j]) = SignalKey(data[k])
                  THEN [key |-> "dup"] ELSE data[k]],
              LAMBDA x : "key" \notin DOMAIN x)

\* lines 2030-2083: merge, sort, drop duplicates, store and return
Merge ==
    /\ pc = "done"
    /\ LET allSignals == signals
           unique == uniqueSignals(SortByReentryTime(
                         mergedSignals(cachedData, forceRefresh, allSignals)))
           result == IF cachedData # << >> /\ allSignals = << >>
                     THEN cachedData ELSE unique
       IN  /\ cache' = unique
           /\ returned' = result
           /\ everResolved' = everResolved \cup Resolved(result)
    /\ pc' = "idle"
    /\ DetectLocalsReset
    /\ UNCHANGED <<auxVars, httpVars, batchVars, range, market, cachedData, sinceDate, forceRefresh>>

----------------------------------------------------------------------------
(* fetchOversoldHistory, fetchHistoricalRSI and fetchMultipleRSI, lines 542-797 *)

MaxHours == 2
LookbackHours == 1
rsiThreshold == 30
OversoldExpiry == 60
RsiExpiry == 120
RsiFallbackAge == 5

Symbols == <<"BTC", "ETH">>

\* an RSI below and an RSI above the threshold
RsiValues == {25, 35}

\* days * 24 hours, the lookback window of fetchOversoldHistory
Lookback == LookbackHours * OneHour

\* closeTime of the 1h candle number h (candle 0 opens at time 0)
HourCloseTime(h) == h * OneHour + OneHour - OneMinute

NoEntry == [present |-> FALSE, data |-> << >>, timestamp |-> 0, expiry |-> 0]

\* CacheUtils.get, lines 43-62: the entry, or none when it is missing or expired
CacheGet(entry, nowT) ==
    IF ~entry.present THEN NoEntry
    ELSE IF entry.expiry # 0 /\ nowT > entry.timestamp + entry.expiry THEN NoEntry
    ELSE entry

\* CacheUtils.set, lines 70-78
CacheSet(data, nowT, expiry) ==
    [present |-> TRUE, data |-> data, timestamp |-> nowT, expiry |-> expiry]

NoGate == [fn |-> "none", force |-> FALSE, decision |-> "none"]

BatchIdle ==
    /\ now = 0
    /\ rsiHistory = [k \in DOMAIN Symbols |-> << >>]
    /\ oversoldCache = NoEntry
    /\ rsiCache = NoEntry
    /\ batchPc = "idle"
    /\ gate = NoGate
    /\ oversoldCachedData = << >>
    /\ lastTimestamp = 0
    /\ allEvents = << >>
    /\ results = << >>
    /\ symbolIndex = 0
    /\ requested = {}
    /\ failedSymbols = {}
    /\ batchReturned = << >>

\* an hour passes: the forming candle of every symbol closes with its final RSI
Tick(final) ==
    /\ batchPc = "idle"
    /\ now < MaxHours * OneHour
    /\ now' = now + OneHour
    /\ rsiHistory' = [k \in DOMAIN Symbols |-> Append(rsiHistory[k], final[k])]
    /\ UNCHANGED <<oversoldCache, rsiCache, batchPc, gate, oversoldCachedData,
                   lastTimestamp, allEvents, results, symbolIndex, requested,
                   failedSymbols, batchReturned, breakoutVars, httpVars, auxVars>>

\* Math.max over the timestamps of a list
latestTimestamp(data) ==
    CHOOSE t \in {data[k].timestamp : k \in DOMAIN data} :
        \A k \in DOMAIN data : data[k].timestamp <= t

\* lines 656-677: the RSI points of one symbol inside the window and after since,
\* oldest first; forming is the RSI of the candle that has not closed yet
fetchHistoricalRSI(k, lookback, sinceTimestamp, forming) ==
    LET rsiValues == Append(rsiHistory[k], forming)
        cutoffTime == now - lookback
        point(i) == [symbol |-> Symbols[k], timestamp |-> HourCloseTime(i - 1),
                     rsi |-> rsiValues[i]]
    IN  SelectSeq([i \in DOMAIN rsiValues |-> point(i)],
                  LAMBDA x : /\ x.timestamp >= cutoffTime
                             /\ (sinceTimestamp = 0 \/ x.timestamp > sinceTimestamp))

\* every RSI point is taken as an event
oversoldEvents_all(historicalRSI) == historicalRSI

\* lines 736-743
oversoldEvents(historicalRSI) == SelectSeq(historicalRSI, LAMBDA x : x.rsi <= rsiThreshold)

\* lines 756-764
mergedEvents(cached, force, events) ==
    IF cached # << >> /\ ~force THEN cached \o events
    ELSE IF cached # << >> /\ force /\ events # << >> THEN cached \o events
    ELSE events

\* line 767: a stable sort, latest timestamp first
RECURSIVE SortByTimestamp(_)
SortByTimestamp(data) ==
    IF data = << >> THEN << >>
    ELSE LET latest == latestTimestamp(data)
         IN  SelectSeq(data, LAMBDA x : x.timestamp = latest)
             \o SortByTimestamp(SelectSeq(data, LAMBDA x : x.timestamp # latest))

\* line 773
EventKey(event) == <<event.symbol, event.timestamp>>

\* duplicates are not removed
uniqueEvents_keepAll(data) == data

\* lines 770-778: the first event of each key is kept
uniqueEvents(data) ==
    SelectSeq([k \in DOMAIN data |->
                  IF \E j \in 1..(k - 1) : EventKey(data[j]) = EventKey(data[k])
                  THEN [key |-> "dup"] ELSE data[k]],
              LAMBDA x : "key" \notin DOMAIN x)

\* lines 755-778: merge, sort and drop duplicates
MergeEvents(cached, force, events) ==
    uniqueEvents(SortByTimestamp(mergedEvents(cached, force, events)))

\* lines 704-717: is the cached list returned without a fetch
ReturnsCachedEvents(cached, force, nowT) ==
    /\ cached # << >>
    /\ ~force
    /\ ~hasNewCandleAvailableAt(nowT, latestTimestamp(cached), OneHour)

\* lines 696-728: read the cache, return it or start the loop over the symbols
StartOversold(force) ==
    /\ batchPc = "idle"
    /\ LET cached == CacheGet(oversoldCache, now)
       IN  /\ oversoldCache' = cached
           /\ requested' = {}
           /\ failedSymbols' = {}
           /\ IF ReturnsCachedEvents(cached.data, force, now)
              THEN /\ batchReturned' = cached.data
                   /\ gate' = [fn |-> "oversold", force |-> force, decision |-> "cached"]
                   /\ UNCHANGED <<batchPc, oversoldCachedData, lastTimestamp, allEvents,
                                  symbolIndex>>
              ELSE /\ oversoldCachedData' = cached.data
                   /\ lastTimestamp' = IF cached.data # << >>
                                       THEN latestTimestamp(cached.data) - OneMinute
                                       ELSE 0
                   /\ gate' = [fn |-> "oversold", force |-> force, decision |-> "fetch"]
                   /\ allEvents' = << >>
                   /\ symbolIndex' = 1
                   /\ batchPc' = "oversold"
                   /\ UNCHANGED batchReturned
    /\ UNCHANGED <<now, rsiHistory, rsiCache, results, breakoutVars, httpVars, auxVars>>

\* the first failure ends the loop
nextSymbolIndex_abort(ok, i) == IF ok THEN i + 1 ELSE Len(Symbols) + 1

\* lines 731-753, 583-602: the catch is inside the loop, which goes on with the next
\* symbol whether the request returned or threw
nextSymbolIndex(ok, i) == i + 1

\* lines 731-753: one round of the loop; ok is whether fetchHistoricalRSI returned
OversoldSymbol(ok, forming) ==
    /\ batchPc = "oversold"
    /\ symbolIndex <= Len(Symbols)
    /\ requested' = requested \cup {Symbols[symbolIndex]}
    /\ IF ok
       THEN /\ allEvents' = allEvents \o oversoldEvents(
                              fetchHistoricalRSI(symbolIndex, Lookback, lastTimestamp,
                                                 forming))
            /\ UNCHANGED failedSymbols
       ELSE /\ failedSymbols' = failedSymbols \cup {Symbols[symbolIndex]}
            /\ UNCHANGED allEvents
    /\ symbolIndex' = nextSymbolIndex(ok, symbolIndex)
    /\ UNCHANGED <<now, rsiHistory, oversoldCache, rsiCache, batchPc, gate,
                   oversoldCachedData, lastTimestamp, results, batchReturned,
                   breakoutVars, httpVars, auxVars>>

\* lines 755-792: merge, store and return
FinishOversold ==
    /\ batchPc = "oversold"
    /\ symbolIndex > Len(Symbols)
    /\ LET unique == MergeEvents(oversoldCachedData, gate.force, allEvents)
       IN  /\ oversoldCache' = CacheSet(unique, now, OversoldExpiry)
           /\ batchReturned' = IF oversoldCachedData # << >> /\ allEvents = << >>
                               THEN oversoldCachedData ELSE unique
    /\ batchPc' = "idle"
    /\ oversoldCachedData' = << >>
    /\ lastTimestamp' = 0
    /\ allEvents' = << >>
    /\ symbolIndex' = 0
    /\ requested' = {}
    /\ failedSymbols' = {}
    /\ gate' = [gate EXCEPT !.decision =
                    IF oversoldCachedData # << >> /\ allEvents # << >> THEN "merged"
                    ELSE IF oversoldCachedData # << >> THEN "kept"
                    ELSE "stored"]
    /\ UNCHANGED <<now, rsiHistory, rsiCache, results, breakoutVars, httpVars, auxVars>>

\* a failed symbol, lines 593-595: results.push(null)
NullResult == [symbol |-> "null", timestamp |-> 0, rsi |-> 0]

\* lines 547-576: is the cached list returned without a fetch
ReturnsCachedRSI(cached, force, nowT) ==
    /\ ~force
    /\ cached.data # << >>
    /\ IF latestTimestamp(cached.data) > 0
       THEN ~hasNewCandleAvailableAt(nowT, latestTimestamp(cached.data), OneHour)
       ELSE nowT - cached.timestamp < RsiFallbackAge

\* lines 544-580: read the cache unless forced, return it or start the loop
StartRSI(force) ==
    /\ batchPc = "idle"
    /\ LET cached == IF force THEN rsiCache ELSE CacheGet(rsiCache, now)
       IN  /\ rsiCache' = cached
           /\ requested' = {}
           /\ failedSymbols' = {}
           /\ IF ReturnsCachedRSI(cached, force, now)
              THEN /\ batchReturned' = cached.data
                   /\ gate' = [fn |-> "rsi", force |-> force, decision |-> "cached"]
                   /\ UNCHANGED <<batchPc, results, symbolIndex>>
              ELSE /\ gate' = [fn |-> "rsi", force |-> force, decision |-> "fetch"]
                   /\ results' = << >>
                   /\ symbolIndex' = 1
                   /\ batchPc' = "rsi"
                   /\ UNCHANGED batchReturned
    /\ UNCHANGED <<now, rsiHistory, oversoldCache, oversoldCachedData, lastTimestamp,
                   allEvents, breakoutVars, httpVars, auxVars>>

\* lines 583-602: one round of the loop; ok is whether fetchRSIFromBinance returned
RsiSymbol(ok, forming) ==
    /\ batchPc = "rsi"
    /\ symbolIndex <= Len(Symbols)
    /\ requested' = requested \cup {Symbols[symbolIndex]}
    /\ IF ok
       THEN /\ results' = Append(results,
                                 [symbol |-> Symbols[symbolIndex],
                                  timestamp |-> HourCloseTime(now \div OneHour),
                                  rsi |-> forming])
            /\ UNCHANGED failedSymbols
       ELSE /\ results' = Append(results, NullResult)
            /\ failedSymbols' = failedSymbols \cup {Symbols[symbolIndex]}
    /\ symbolIndex' = nextSymbolIndex(ok, symbolIndex)
    /\ UNCHANGED <<now, rsiHistory, oversoldCache, rsiCache, batchPc, gate,
                   oversoldCachedData, lastTimestamp, allEvents, batchReturned,
                   breakoutVars, httpVars, auxVars>>

\* lines 604-610: drop the failed symbols, store and return
FinishRSI ==
    /\ batchPc = "rsi"
    /\ symbolIndex > Len(Symbols)
    /\ LET filteredResults == SelectSeq(results, LAMBDA x : x # NullResult)
       IN  /\ rsiCache' = CacheSet(filteredResults, now, RsiExpiry)
           /\ batchReturned' = filteredResults
    /\ batchPc' = "idle"
    /\ results' = << >>
    /\ symbolIndex' = 0
    /\ requested' = {}
    /\ failedSymbols' = {}
    /\ gate' = [gate EXCEPT !.decision = "stored"]
    /\ UNCHANGED <<now, rsiHistory, oversoldCache, oversoldCachedData,
                   lastTimestamp, allEvents, breakoutVars, httpVars, auxVars>>

\* a session of the application refreshes one of the two views
NextOversold ==
    \/ \E final \in [DOMAIN Symbols -> RsiValues] : Tick(final)
    \/ /\ gate.fn # "rsi"
       /\ \E force \in BOOLEAN : StartOversold(force)
    \/ \E ok \in BOOLEAN, forming \in RsiValues : OversoldSymbol(ok, forming)
    \/ FinishOversold
    \/ /\ gate.fn # "oversold"
       /\ \E force \in BOOLEAN : StartRSI(force)
    \/ \E ok \in BOOLEAN, forming \in RsiValues : RsiSymbol(ok, forming)
    \/ FinishRSI

----------------------------------------------------------------------------
(* getBinanceKlines and getBinancePrice: one HTTP call, lines 183-268 *)

MaxRequests == 4
DefaultWait == 60
RateLimited == 429
Banned == 418

HttpStatuses == {200, 404, 418, 429, 500}

\* the Retry-After header in seconds, -1 when the response carries none
RetryAfterHeaders == {-1, 1, 30}

NoError == [name |-> "none", code |-> 0]

\* response.ok
ResponseOk(st) == st >= 200 /\ st <= 299

HttpIdle ==
    /\ httpCall = "none"
    /\ httpPc = "idle"
    /\ requests = 0
    /\ waited = 0
    /\ waitTime = 0
    /\ status = 0
    /\ error = NoError

\* every failed response is followed by a wait and a retry
AfterResponse_retryAny(st, retryAfter) ==
    IF ResponseOk(st) THEN [pc |-> "returned", waitTime |-> 0, error |-> NoError]
    ELSE [pc |-> "waiting",
          waitTime |-> IF retryAfter # -1 THEN retryAfter ELSE DefaultWait,
          error |-> NoError]

\* lines 200-213 and 247-260: what follows a response
AfterResponse(st, retryAfter) ==
    IF ResponseOk(st) THEN [pc |-> "returned", waitTime |-> 0, error |-> NoError]
    ELSE IF st = RateLimited
    THEN [pc |-> "waiting",
          waitTime |-> IF retryAfter # -1 THEN retryAfter ELSE DefaultWait,
          error |-> NoError]
    ELSE IF st = Banned
    THEN [pc |-> "failed", waitTime |-> 0, error |-> [name |-> "banned", code |-> Banned]]
    ELSE [pc |-> "failed", waitTime |-> 0, error |-> [name |-> "status", code |-> st]]

\* a caller calls getBinanceKlines or getBinancePrice
CallHttp(fn) ==
    /\ httpPc = "idle"
    /\ httpCall' = fn
    /\ httpPc' = "fetch"
    /\ requests' = 0
    /\ waited' = 0
    /\ waitTime' = 0
    /\ status' = 0
    /\ error' = NoError
    /\ UNCHANGED <<breakoutVars, batchVars, auxVars>>

\* lines 198-213, 245-260: fetch and the branch on the response
Respond(st, retryAfter) ==
    /\ httpPc = "fetch"
    /\ st = RateLimited => requests + 1 < MaxRequests
    /\ requests' = requests + 1
    /\ status' = st
    /\ httpPc' = AfterResponse(st, retryAfter).pc
    /\ waitTime' = AfterResponse(st, retryAfter).waitTime
    /\ error' = AfterResponse(st, retryAfter).error
    /\ UNCHANGED <<httpCall, waited, breakoutVars, batchVars, auxVars>>

\* lines 206-208, 253-255: sleep, then the function calls itself
WaitAndRetry ==
    /\ httpPc = "waiting"
    /\ waited' = waited + waitTime
    /\ httpPc' = "fetch"
    /\ UNCHANGED <<httpCall, requests, waitTime, status, error, breakoutVars, batchVars, auxVars>>

\* the caller receives the data or the error
HttpDone ==
    /\ httpPc \in {"returned", "failed"}
    /\ httpPc' = "idle"
    /\ UNCHANGED <<httpCall, requests, waited, waitTime, status, error, breakoutVars, batchVars, auxVars>>

NextHttp ==
    \/ \E fn \in {"klines", "price"} : CallHttp(fn)
    \/ \E st \in HttpStatuses, retryAfter \in RetryAfterHeaders : Respond(st, retryAfter)
    \/ WaitAndRetry
    \/ HttpDone

----------------------------------------------------------------------------
(* calculateRSI and fetchRSIFromBinance, lines 348-532.  Prices are integers *)
(* and the averages are exact fractions [n, d]; the rounding of IEEE doubles *)
(* is not represented.  The moving average of the RSI is left out.           *)

RsiPeriod == 2          \* period (14 by default)
MaxKlines == 4          \* candles in the array the exchange returns

\* close times of hourly candles and closing prices
KlineCloseTimes == {HourCloseTime(h) : h \in 0..2}
KlineCloses == {100, 101, 103}
Klines == [closeTime : KlineCloseTimes, close : KlineCloses]

\* Date.now() at the fetch: inside the last of these hours, or after it
RsiNows == {150, 200}

FracOf(i) == [n |-> i, d |-> 1]
FracAdd(a, b) == [n |-> a.n * b.d + b.n * a.d, d |-> a.d * b.d]
FracSub(a, b) == [n |-> a.n * b.d - b.n * a.d, d |-> a.d * b.d]
FracMul(a, b) == [n |-> a.n * b.n, d |-> a.d * b.d]
FracDiv(a, b) ==
    IF b.n < 0 THEN [n |-> 0 - (a.n * b.d), d |-> 0 - (a.d * b.n)]
    ELSE [n |-> a.n * b.d, d |-> a.d * b.n]

RsiNull == [null |-> TRUE, n |-> 0, d |-> 1]
RsiNumber(f) == [null |-> FALSE, n |-> f.n, d |-> f.d]

\* lines 357-360
changes(prices) == [k \in 1..(Len(prices) - 1) |-> prices[k + 1] - prices[k]]

\* line 363
gains(cs) == [k \in DOMAIN cs |-> IF cs[k] > 0 THEN cs[k] ELSE 0]

\* the losses kept with their sign
losses_signed(cs) == [k \in DOMAIN cs |-> IF cs[k] < 0 THEN cs[k] ELSE 0]

\* line 364
losses(cs) == [k \in DOMAIN cs |-> IF cs[k] < 0 THEN 0 - cs[k] ELSE 0]

RECURSIVE SumSeq(_)
SumSeq(xs) == IF xs = << >> THEN 0 ELSE Head(xs) + SumSeq(Tail(xs))

\* lines 367-368 and 380-381: the average at the j-th price, j > period
RECURSIVE smoothedAverage(_, _, _)
smoothedAverage(xs, period, j) ==
    IF j = period + 1
    THEN FracDiv(FracOf(SumSeq(SubSeq(xs, 1, period))), FracOf(period))
    ELSE FracDiv(FracAdd(FracMul(smoothedAverage(xs, period, j - 1), FracOf(period - 1)),
                         FracOf(xs[j - 1])),
                 FracOf(period))

\* no loss at all read as the strongest reading
rsiOf_noLossIsHundred(avgGain, avgLoss) ==
    IF avgLoss.n = 0 THEN FracOf(100)
    ELSE FracSub(FracOf(100),
                 FracDiv(FracOf(100), FracAdd(FracOf(1), FracDiv(avgGain, avgLoss))))

\* lines 371-372 and 384-385
rsiOf(avgGain, avgLoss) ==
    LET rs == IF avgLoss.n # 0 THEN FracDiv(avgGain, avgLoss) ELSE FracOf(0)
    IN  FracSub(FracOf(100), FracDiv(FracOf(100), FracAdd(FracOf(1), rs)))

\* lines 348-389: [threw, values]
calculateRSI(prices, period) ==
    IF Len(prices) < period + 1
    THEN [threw |-> TRUE, values |-> << >>]
    ELSE [threw |-> FALSE,
          values |->
              [j \in 1..Len(prices) |->
                  IF j <= period THEN RsiNull
                  ELSE RsiNumber(rsiOf(smoothedAverage(gains(changes(prices)), period, j),
                                       smoothedAverage(losses(changes(prices)), period, j)))]]

\* Array.prototype.sort is stable: x goes behind the candles that do not close later
RECURSIVE InsertByCloseTime(_, _)
InsertByCloseTime(sorted, x) ==
    IF sorted = << >> THEN <<x>>
    ELSE IF Head(sorted).closeTime <= x.closeTime
    THEN <<Head(sorted)>> \o InsertByCloseTime(Tail(sorted), x)
    ELSE <<x>> \o sorted

\* line 415
RECURSIVE SortByCloseTime(_)
SortByCloseTime(data) ==
    IF data = << >> THEN << >>
    ELSE InsertByCloseTime(SortByCloseTime(SubSeq(data, 1, Len(data) - 1)), data[Len(data)])

NoReading ==
    [timestamp |-> 0, price |-> 0, rsi |-> RsiNull,
     previous_timestamp |-> 0, previous_price |-> 0, previous_rsi |-> RsiNull]

\* rsiValues[rsiValues.length - 2] || null: a zero reads as null
OrNull(v) == IF v.null \/ v.n = 0 THEN RsiNull ELSE v

\* lines 398-532: [threw, reading]
fetchRSIFromBinance(ks, period) ==
    IF ks = << >> THEN [threw |-> TRUE, reading |-> NoReading]
    ELSE LET formattedData == SortByCloseTime(ks)
             rsi == calculateRSI([k \in DOMAIN formattedData |-> formattedData[k].close],
                                 period)
         IN  IF rsi.threw THEN [threw |-> TRUE, reading |-> NoReading]
             ELSE LET latestIndex == Len(formattedData)
                      previousIndex == Len(formattedData) - 1
                      latestRSI == rsi.values[latestIndex]
                      previousRSI == OrNull(rsi.values[previousIndex])
                      latestT == formattedData[latestIndex].closeTime
                      previousT == formattedData[previousIndex].closeTime
                  IN  IF previousT > latestT
                      THEN [threw |-> FALSE,
                            reading |->
                                [timestamp |-> previousT,
                                 price |-> formattedData[previousIndex].close,
                                 rsi |-> IF ~previousRSI.null THEN previousRSI ELSE latestRSI,
                                 previous_timestamp |-> latestT,
                                 previous_price |-> formattedData[latestIndex].close,
                                 previous_rsi |-> latestRSI]]
                      ELSE [threw |-> FALSE,
                            reading |->
                                [timestamp |-> latestT,
                                 price |-> formattedData[latestIndex].close,
                                 rsi |-> latestRSI,
                                 previous_timestamp |-> previousT,
                                 previous_price |-> formattedData[previousIndex].close,
                                 previous_rsi |-> previousRSI]]

NotCalculated == [done |-> FALSE, threw |-> FALSE, values |-> << >>]
NotFetched == [done |-> FALSE, threw |-> FALSE, reading |-> NoReading]

RsiIdle ==
    /\ klines = << >>
    /\ rsiNow = 0
    /\ rsiOut = NotCalculated
    /\ readingOut = NotFetched

\* calculateRSI applied to the closes as they come
CalculateRSI ==
    /\ ~rsiOut.done
    /\ LET r == calculateRSI([k \in DOMAIN klines |-> klines[k].close], RsiPeriod)
       IN  rsiOut' = [done |-> TRUE, threw |-> r.threw, values |-> r.values]
    /\ UNCHANGED <<extraVars, klines, rsiNow, readingOut, storageVars, loopVars, raceVars,
                   breakoutVars, httpVars, batchVars>>

\* fetchRSIFromBinance applied to the array of the exchange
FetchRSI ==
    /\ ~readingOut.done
    /\ LET r == fetchRSIFromBinance(klines, RsiPeriod)
       IN  readingOut' = [done |-> TRUE, threw |-> r.threw, reading |-> r.reading]
    /\ UNCHANGED <<extraVars, klines, rsiNow, rsiOut, storageVars, loopVars, raceVars,
                   breakoutVars, httpVars, batchVars>>

NextRsi ==
    \/ CalculateRSI
    \/ FetchRSI

----------------------------------------------------------------------------
(* CacheUtils.set under a storage quota, lines 70-85 and 118-143.  The data *)
(* of an entry is represented by its size.                                   *)

StorageQuota == 3       \* what localStorage holds, in units of entry size
MaxDays == 3            \* days the clock runs

maxAge == OneDay        \* line 122

CacheKeys == {"rsi", "oversold", "breakout"}
DataSizes == {1, 2}

NoItem == [present |-> FALSE, timestamp |-> 0, size |-> 0]
NoSet == [key |-> "none", data |-> 0, error |-> "none", stored |-> FALSE]
NothingReturned == [threw |-> FALSE, data |-> 0]

StorageIdle ==
    /\ storage = [k \in CacheKeys |-> NoItem]
    /\ storageNow = 0
    /\ lastSet = NoSet
    /\ setReturned = NothingReturned

RECURSIVE usedOf(_, _)
usedOf(st, keys) ==
    IF keys = {} THEN 0
    ELSE LET k == CHOOSE x \in keys : TRUE
         IN  st[k].size + usedOf(st, keys \ {k})

used(st) == usedOf(st, CacheKeys)

\* localStorage.setItem: the new value takes the place of the old one if it fits
fits(st, key, data) == used(st) - st[key].size + data <= StorageQuota

\* lines 118-143
clearOld(st, nowT) ==
    [k \in CacheKeys |->
        IF st[k].present /\ nowT - st[k].timestamp > maxAge THEN NoItem ELSE st[k]]

\* an error of the write is thrown on to the caller
CacheUtilsSet_rethrow(st, key, data, nowT, blocked) ==
    IF blocked THEN [storage |-> st, threw |-> TRUE, error |-> "other", stored |-> FALSE]
    ELSE IF fits(st, key, data)
    THEN [storage |-> [st EXCEPT ![key] = [present |-> TRUE, timestamp |-> nowT, size |-> data]],
          threw |-> FALSE, error |-> "none", stored |-> TRUE]
    ELSE [storage |-> clearOld(st, nowT), threw |-> TRUE, error |-> "quota", stored |-> FALSE]

\* lines 70-85: blocked is setItem failing for a reason other than the quota
CacheUtilsSet(st, key, data, nowT, blocked) ==
    IF blocked THEN [storage |-> st, threw |-> FALSE, error |-> "other", stored |-> FALSE]
    ELSE IF fits(st, key, data)
    THEN [storage |-> [st EXCEPT ![key] = [present |-> TRUE, timestamp |-> nowT, size |-> data]],
          threw |-> FALSE, error |-> "none", stored |-> TRUE]
    ELSE [storage |-> clearOld(st, nowT), threw |-> FALSE, error |-> "quota", stored |-> FALSE]

\* lines 604-610: the end of a refresh, which stores its result and returns it
SetAndReturn(key, data, blocked) ==
    /\ LET res == CacheUtilsSet(storage, key, data, storageNow, blocked)
       IN  /\ storage' = res.storage
           /\ lastSet' = [key |-> key, data |-> data, error |-> res.error,
                          stored |-> res.stored]
           /\ setReturned' = IF res.threw THEN [threw |-> TRUE, data |-> 0]
                             ELSE [threw |-> FALSE, data |-> data]
    /\ UNCHANGED <<extraVars, storageNow, rsiVars, loopVars, raceVars, breakoutVars, httpVars,
                   batchVars>>

StorageTick ==
    /\ storageNow < MaxDays * OneDay
    /\ storageNow' = storageNow + OneDay
    /\ UNCHANGED <<extraVars, storage, lastSet, setReturned, rsiVars, loopVars, raceVars,
                   breakoutVars, httpVars, batchVars>>

NextStorage ==
    \/ \E key \in CacheKeys, data \in DataSizes, blocked \in BOOLEAN :
           SetAndReturn(key, data, blocked)
    \/ StorageTick

----------------------------------------------------------------------------
(* The loop over the symbols of a batch: fetchMultipleRSI (lines 582-602),    *)
(* fetchOversoldHistory (731-753), fetchMultipleBreakoutSignals (2013-2028)   *)
(* and fetchMultipleRSI of src/src/binance.js (380-398).                      *)

BatchSymbols == <<"BTC", "BNB", "ETH">>

BatchFns == {"rsi", "oversold", "breakout", "rsiAll"}

LoopIdle ==
    /\ loopFn = "none"
    /\ loopPc = "idle"
    /\ loopIndex = 0
    /\ inFlight = {}
    /\ outcomes = << >>
    /\ delayElapsed = FALSE

\* src/src/binance.js lines 382-390: Promise.all over symbols.map
issuesAllAtOnce(fn) == fn = "rsiAll"

\* whether a delay follows the symbol at index: fetchMultipleRSI waits after
\* every symbol but the last (lines 590-592, 598-600), the other loops wait
\* inside the try block, after a request that succeeded (lines 748, 2023)
delayFollows(fn, ok, index) ==
    IF fn = "rsi" THEN index # Len(BatchSymbols) ELSE ok

StartBatch(fn) ==
    /\ loopPc = "idle"
    /\ loopFn' = fn
    /\ loopPc' = "issue"
    /\ loopIndex' = 1
    /\ inFlight' = {}
    /\ outcomes' = << >>
    /\ delayElapsed' = FALSE
    /\ UNCHANGED <<extraVars, rsiVars, storageVars, raceVars, breakoutVars, httpVars, batchVars>>

\* the await of the request of one symbol
IssueRequest ==
    /\ loopPc = "issue"
    /\ ~issuesAllAtOnce(loopFn)
    /\ inFlight' = inFlight \cup {BatchSymbols[loopIndex]}
    /\ loopPc' = "await"
    /\ delayElapsed' = FALSE
    /\ UNCHANGED <<extraVars, loopFn, loopIndex, outcomes, rsiVars, storageVars, raceVars,
                   breakoutVars, httpVars, batchVars>>

\* symbols.map starts the request of every symbol before anything is awaited
IssueAll ==
    /\ loopPc = "issue"
    /\ issuesAllAtOnce(loopFn)
    /\ inFlight' = {BatchSymbols[k] : k \in DOMAIN BatchSymbols}
    /\ loopPc' = "await"
    /\ UNCHANGED <<extraVars, loopFn, loopIndex, outcomes, delayElapsed, rsiVars, storageVars,
                   raceVars, breakoutVars, httpVars, batchVars>>

\* a request returns or throws
Complete(sym, ok) ==
    /\ loopPc = "await"
    /\ sym \in inFlight
    /\ inFlight' = inFlight \ {sym}
    /\ outcomes' = Append(outcomes, [symbol |-> sym, ok |-> ok])
    /\ IF issuesAllAtOnce(loopFn)
       THEN /\ loopPc' = IF inFlight' = {} THEN "done" ELSE "await"
            /\ UNCHANGED loopIndex
       ELSE /\ loopIndex' = loopIndex + 1
            /\ loopPc' = IF delayFollows(loopFn, ok, loopIndex) THEN "delay"
                         ELSE IF loopIndex = Len(BatchSymbols) THEN "done"
                         ELSE "issue"
    /\ UNCHANGED <<extraVars, loopFn, delayElapsed, rsiVars, storageVars, raceVars, breakoutVars,
                   httpVars, batchVars>>

\* await new Promise(resolve => setTimeout(resolve, ...))
Delay ==
    /\ loopPc = "delay"
    /\ delayElapsed' = TRUE
    /\ loopPc' = IF loopIndex > Len(BatchSymbols) THEN "done" ELSE "issue"
    /\ UNCHANGED <<extraVars, loopFn, loopIndex, inFlight, outcomes, rsiVars, storageVars, raceVars,
                   breakoutVars, httpVars, batchVars>>

FinishBatch ==
    /\ loopPc = "done"
    /\ loopFn' = "none"
    /\ loopPc' = "idle"
    /\ loopIndex' = 0
    /\ inFlight' = {}
    /\ outcomes' = << >>
    /\ delayElapsed' = FALSE
    /\ UNCHANGED <<extraVars, rsiVars, storageVars, raceVars, breakoutVars, httpVars, batchVars>>

NextLoop ==
    \/ \E fn \in BatchFns : StartBatch(fn)
    \/ IssueRequest
    \/ IssueAll
    \/ \E sym \in inFlight, ok \in BOOLEAN : Complete(sym, ok)
    \/ Delay
    \/ FinishBatch

----------------------------------------------------------------------------
(* Two callers of fetchMultipleBreakoutSignals (lines 1968-2088) at a time:   *)
(* the mount effect and the one-minute timer of App.  Signals are numbered in *)
(* the order the exchange data yields them; refreshes are not forced.         *)

MaxSignals == 2

Callers == {"mount", "timer"}

RaceIdle ==
    /\ raceCache = {}
    /\ raceMarket = 0
    /\ racePc = [p \in Callers |-> "idle"]
    /\ raceCached = [p \in Callers |-> {}]
    /\ raceFetched = [p \in Callers |-> {}]
    /\ raceRequests = [p \in Callers |-> 0]
    /\ lastWriter = "none"

\* a refresh waits until no other refresh runs
mayStart_exclusive(p, pcs) == \A q \in Callers : pcs[q] = "idle"

\* part_001 lines 5538-5553: the caller starts a refresh whatever else runs
mayStart(p, pcs) == pcs[p] = "idle"

MaxOf(ids) == IF ids = {} THEN 0 ELSE CHOOSE x \in ids : \A y \in ids : x >= y

\* lines 2013-2028 with sinceDate one minute before the latest cached signal
fetchedSince(cached, yielded) == {i \in 1..yielded : i >= MaxOf(cached)}

\* what is under the key after the write of a refresh, lines 2030-2068
storedAfterMerge(current, cached, fetched) == cached \cup fetched

\* lines 1975-2004: the cache is read and the refresh decided
RaceStart(p, newCandle) ==
    /\ mayStart(p, racePc)
    /\ raceCached' = [raceCached EXCEPT ![p] = raceCache]
    /\ raceFetched' = [raceFetched EXCEPT ![p] = {}]
    /\ raceRequests' = [raceRequests EXCEPT ![p] = 0]
    /\ racePc' = [racePc EXCEPT ![p] = IF raceCache # {} /\ ~newCandle THEN "idle"
                                       ELSE "fetching"]
    /\ UNCHANGED <<extraVars, raceCache, raceMarket, lastWriter, rsiVars, storageVars, loopVars,
                   breakoutVars, httpVars, batchVars>>

\* lines 2013-2028: the requests of the refresh
RaceFetch(p) ==
    /\ racePc[p] = "fetching"
    /\ raceFetched' = [raceFetched EXCEPT ![p] = fetchedSince(raceCached[p], raceMarket)]
    /\ raceRequests' = [raceRequests EXCEPT ![p] = @ + 1]
    /\ racePc' = [racePc EXCEPT ![p] = "fetched"]
    /\ UNCHANGED <<extraVars, raceCache, raceMarket, raceCached, lastWriter, rsiVars, storageVars,
                   loopVars, breakoutVars, httpVars, batchVars>>

\* lines 2030-2083: merge, store, return
RaceMerge(p) ==
    /\ racePc[p] = "fetched"
    /\ raceCache' = storedAfterMerge(raceCache, raceCached[p], raceFetched[p])
    /\ lastWriter' = p
    /\ racePc' = [racePc EXCEPT ![p] = "idle"]
    /\ UNCHANGED <<extraVars, raceMarket, raceCached, raceFetched, raceRequests, rsiVars,
                   storageVars, loopVars, breakoutVars, httpVars, batchVars>>

\* the exchange data yields one more signal
MarketGrows ==
    /\ raceMarket < MaxSignals
    /\ raceMarket' = raceMarket + 1
    /\ UNCHANGED <<extraVars, raceCache, racePc, raceCached, raceFetched, raceRequests, lastWriter,
                   rsiVars, storageVars, loopVars, breakoutVars, httpVars, batchVars>>

NextRace ==
    \/ \E p \in Callers, newCandle \in BOOLEAN : RaceStart(p, newCandle)
    \/ \E p \in Callers : RaceFetch(p)
    \/ \E p \in Callers : RaceMerge(p)
    \/ MarketGrows

----------------------------------------------------------------------------
(* App.js: fetchBreakoutSignals and checkAndNotifyNewBreakouts, part_001 lines
   5419-5584, with sendNotification of notificationService.js, lines 49-94 *)

MaxRefreshes == 3       \* refreshes of fetchBreakoutSignals that return

\* `signal_${symbol}_${reentryTime}` of the pending signals a refresh can return
NotifKeys == {"BTC_489", "ETH_489"}

NotifIdle ==
    /\ breakoutSignalsData = {}
    /\ notifiedBreakouts = {}
    /\ scheduledChecks = << >>
    /\ pendingSends = [k \in NotifKeys |-> 0]
    /\ sentNotifications = [k \in NotifKeys |-> 0]
    /\ refreshesDone = 0

\* part_001 lines 5439-5451: the keys a check sends a notification for, those that
\* are not in the old data and not marked as notified
keysToNotify(newSignals, oldSignals, notified) ==
    {key \in newSignals : key \notin oldSignals /\ key \notin notified}

\* part_001 lines 5551-5582: a refresh returns; the state updater schedules the check
\* with the previous data and puts the returned signals into the state
RefreshReturns(signalKeys) ==
    /\ refreshesDone < MaxRefreshes
    /\ refreshesDone' = refreshesDone + 1
    /\ scheduledChecks' = Append(scheduledChecks,
                                 [newSignals |-> signalKeys,
                                  oldSignals |-> breakoutSignalsData])
    /\ breakoutSignalsData' = signalKeys
    /\ UNCHANGED <<notifiedBreakouts, pendingSends, sentNotifications, fetchVars, rsiVars,
                   storageVars, loopVars, raceVars, breakoutVars, httpVars, batchVars>>

\* part_001 lines 5419-5475: the scheduled check runs and calls sendNotification for
\* every key that is new; each call waits for navigator.serviceWorker.ready
CheckAndNotify ==
    /\ scheduledChecks # << >>
    /\ LET check == Head(scheduledChecks)
           keys == keysToNotify(check.newSignals, check.oldSignals, notifiedBreakouts)
       IN  pendingSends' = [k \in NotifKeys |->
                               IF k \in keys THEN pendingSends[k] + 1 ELSE pendingSends[k]]
    /\ scheduledChecks' = Tail(scheduledChecks)
    /\ UNCHANGED <<breakoutSignalsData, notifiedBreakouts, sentNotifications, refreshesDone,
                   fetchVars, rsiVars, storageVars, loopVars, raceVars, breakoutVars,
                   httpVars, batchVars>>

\* notificationService.js lines 61-93 and part_001 lines 5466-5473: the notification
\* is shown and the key marked, or sendNotification resolves to false
SendResolves(key, sent) ==
    /\ pendingSends[key] > 0
    /\ pendingSends' = [pendingSends EXCEPT ![key] = @ - 1]
    /\ IF sent
       THEN /\ sentNotifications' = [sentNotifications EXCEPT ![key] = @ + 1]
            /\ notifiedBreakouts' = notifiedBreakouts \cup {key}
       ELSE UNCHANGED <<sentNotifications, notifiedBreakouts>>
    /\ UNCHANGED <<breakoutSignalsData, scheduledChecks, refreshesDone, fetchVars, rsiVars,
                   storageVars, loopVars, raceVars, breakoutVars, httpVars, batchVars>>

NextNotif ==
    \/ \E signalKeys \in SUBSET NotifKeys : RefreshReturns(signalKeys)
    \/ CheckAndNotify
    \/ \E key \in NotifKeys, sent \in BOOLEAN : SendResolves(key, sent)

----------------------------------------------------------------------------
(* fetch5MinKlines, lines 969-1038, over getBinanceKlines, lines 183-232 *)

MaxHistory == 4         \* 5m candles the exchange holds
MaxLimit == 2           \* the limit argument
MaxBatch == 3           \* stands for the 1000 candles of one request, line 978
ExtraFetch == 1         \* stands for the 100 extra candles of a request, line 978

\* the k-th 5m candle of the exchange: timestamp is its opening time
Kline5m(k) == [timestamp |-> FiveMin * k, closeTime |-> FiveMin * k + FiveMin - OneMinute]

ExchangeHistory(held) == [k \in 1..held |-> Kline5m(k)]

FetchIdle ==
    /\ exchange = << >>
    /\ fetchArgs = [limit |-> 0, startTime |-> 0, newestFirst |-> TRUE]
    /\ fetchPc = "idle"
    /\ allKlines = << >>
    /\ endTime = 0
    /\ batchRequests = 0
    /\ finalData = << >>

Reversed(sq) == [k \in DOMAIN sq |-> sq[Len(sq) + 1 - k]]

Min2(a, b) == IF a < b THEN a ELSE b

\* getBinanceKlines(symbol, '5m', batchLimit, endTime): the latest batchLimit candles
\* that opened at or before endTime, the latest of all when endTime is null, in the
\* order the exchange lists them
getBinanceKlines(history, batchLimit, before, newestFirst) ==
    LET upTo == IF before = 0 THEN history
                ELSE SelectSeq(history, LAMBDA c : c.timestamp <= before)
        latest == SubSeq(upTo, Len(upTo) - Min2(Len(upTo), batchLimit) + 1, Len(upTo))
    IN  IF newestFirst THEN Reversed(latest) ELSE latest

\* line 978
batchLimitOf(limit, collected) == Min2(MaxBatch, limit - collected + ExtraFetch)

\* lines 988-990 and 1026-1029: candles closing at or after startTime
filterByStartTime(cs, startTime) ==
    IF startTime = 0 THEN cs ELSE SelectSeq(cs, LAMBDA c : c.closeTime >= startTime)

\* line 1021: allKlines.sort by closeTime, oldest first
RECURSIVE SortOldestFirst(_)
SortOldestFirst(cs) ==
    IF cs = << >> THEN << >>
    ELSE LET earliest == CHOOSE t \in {cs[k].closeTime : k \in DOMAIN cs} :
                             \A k \in DOMAIN cs : t <= cs[k].closeTime
         IN  SelectSeq(cs, LAMBDA c : c.closeTime = earliest)
             \o SortOldestFirst(SelectSeq(cs, LAMBDA c : c.closeTime # earliest))

\* line 1032: finalData.slice(0, maxCandles)
FirstOf(cs, n) == SubSeq(cs, 1, Min2(Len(cs), n))

\* a call fetch5MinKlines(symbol, limit, startTime) against an exchange holding candles
Fetch5MinKlines(held, limit, startTime, newestFirst) ==
    /\ fetchPc = "idle"
    /\ exchange' = ExchangeHistory(held)
    /\ fetchArgs' = [limit |-> limit, startTime |-> startTime, newestFirst |-> newestFirst]
    /\ fetchPc' = "loop"
    /\ UNCHANGED <<allKlines, endTime, batchRequests, finalData, notifVars, rsiVars,
                   storageVars, loopVars, raceVars, breakoutVars, httpVars, batchVars>>

\* lines 976-1018: one turn of the while loop
FetchBatch ==
    /\ fetchPc = "loop"
    /\ LET batchLimit == batchLimitOf(fetchArgs.limit, Len(allKlines))
           batch == getBinanceKlines(exchange, batchLimit, endTime, fetchArgs.newestFirst)
           filteredData == filterByStartTime(batch, fetchArgs.startTime)
           collected == allKlines \o filteredData
       IN  /\ batchRequests' = batchRequests + 1
           /\ IF batch = << >>
              THEN /\ fetchPc' = "sort"
                   /\ UNCHANGED <<allKlines, endTime>>
              ELSE IF fetchArgs.startTime # 0 /\ filteredData = << >> /\ allKlines # << >>
              THEN /\ fetchPc' = "sort"
                   /\ UNCHANGED <<allKlines, endTime>>
              ELSE /\ allKlines' = collected
                   /\ IF Len(batch) < batchLimit
                      THEN /\ fetchPc' = "sort"
                           /\ UNCHANGED endTime
                      ELSE /\ endTime' = batch[Len(batch)].timestamp - OneMinute
                           /\ fetchPc' = IF Len(collected) >= fetchArgs.limit
                                         THEN "sort" ELSE "loop"
    /\ UNCHANGED <<exchange, fetchArgs, finalData, notifVars, rsiVars, storageVars,
                   loopVars, raceVars, breakoutVars, httpVars, batchVars>>

\* lines 1020-1032: sort, filter again, cut to the limit, return
FetchReturn ==
    /\ fetchPc = "sort"
    /\ finalData' = FirstOf(filterByStartTime(SortOldestFirst(allKlines),
                                              fetchArgs.startTime),
                            fetchArgs.limit)
    /\ fetchPc' = "returned"
    /\ UNCHANGED <<exchange, fetchArgs, allKlines, endTime, batchRequests, notifVars,
                   rsiVars, storageVars, loopVars, raceVars, breakoutVars, httpVars,
                   batchVars>>

\* the startTime arguments: null, or the close time of a candle
StartTimes == {0} \cup {Kline5m(k).closeTime : k \in 1..MaxHistory}

NextFetch ==
    \/ \E held \in 0..MaxHistory, limit \in 1..MaxLimit, startTime \in StartTimes,
          newestFirst \in BOOLEAN :
           Fetch5MinKlines(held, limit, startTime, newestFirst)
    \/ FetchBatch
    \/ FetchReturn

----------------------------------------------------------------------------
Init ==
    /\ range \in SessionRanges
    /\ candlesAfterRange = << >>
    /\ validBreakoutReentryPairs = << >>
    /\ firstBreakoutIndex = NoBreakout.index
    /\ firstBreakoutCandle = NoBreakout.candle
    /\ firstBreakoutTime = NoBreakout.time
    /\ firstBreakoutPrice = NoBreakout.price
    /\ firstBreakoutDirection = NoBreakout.direction
    /\ hasOpenPosition = FALSE
    /\ signals = << >>
    /\ breakoutsWithoutReentry = << >>
    /\ additionalCandles = << >>
    /\ pendingSignals = << >>
    /\ pc = "scan"
    /\ market = << >>
    /\ cache = << >>
    /\ cachedData = << >>
    /\ sinceDate = 0
    /\ forceRefresh = FALSE
    /\ returned = << >>
    /\ everResolved = {}
    /\ HttpIdle
    /\ BatchIdle
    /\ RsiIdle
    /\ StorageIdle
    /\ LoopIdle
    /\ RaceIdle
    /\ NotifIdle
    /\ FetchIdle

Next ==
    \/ /\ pc = "scan"
       /\ \E s \in CandleShapes : ScanCandle(s)
    \/ NoCandles
    \/ FinishDay
    \/ /\ pc = "lookahead"
       /\ pendingSignals # << >>
       /\ \E later \in LaterShapes(market) : LookaheadSignal(later)
    \/ Return

Spec == Init /\ [][Next]_vars

\* Candles of a day that breaks out above the range at 102.00 and closes back inside
\* at 98.00 with a low of 96.50, or closes below the range on the way
ScenarioShapes ==
    {[close |-> 10200, high |-> 10200, low |-> 10200],
     [close |-> 10200, high |-> 10250, low |-> 10100],
     [close |-> 9800, high |-> 9800, low |-> 9650],
     [close |-> 9800, high |-> 10100, low |-> 9650],
     [close |-> 9400, high |-> 9400, low |-> 9400]}

NextScenario ==
    \/ /\ pc = "scan"
       /\ \E s \in ScenarioShapes : ScanCandle(s)
    \/ NoCandles
    \/ FinishDay
    \/ /\ pc = "lookahead"
       /\ pendingSignals # << >>
       /\ \E later \in LaterShapes(market) : LookaheadSignal(later)
    \/ Return

SpecScenario == Init /\ [][NextScenario]_vars

\* the application between two refreshes, nothing cached yet
BreakoutIdle ==
    /\ range \in SessionRanges
    /\ candlesAfterRange = << >>
    /\ validBreakoutReentryPairs = << >>
    /\ firstBreakoutIndex = NoBreakout.index
    /\ firstBreakoutCandle = NoBreakout.candle
    /\ firstBreakoutTime = NoBreakout.time
    /\ firstBreakoutPrice = NoBreakout.price
    /\ firstBreakoutDirection = NoBreakout.direction
    /\ hasOpenPosition = FALSE
    /\ signals = << >>
    /\ breakoutsWithoutReentry = << >>
    /\ additionalCandles = << >>
    /\ pendingSignals = << >>
    /\ pc = "idle"
    /\ market = << >>
    /\ cache = << >>
    /\ cachedData = << >>
    /\ sinceDate = 0
    /\ forceRefresh = FALSE
    /\ returned = << >>
    /\ everResolved = {}

InitRefresh ==
    /\ BreakoutIdle
    /\ HttpIdle
    /\ BatchIdle
    /\ RsiIdle
    /\ StorageIdle
    /\ LoopIdle
    /\ RaceIdle
    /\ NotifIdle
    /\ FetchIdle

NextRefresh ==
    \/ \E force \in BOOLEAN, expired \in BOOLEAN : StartRefresh(force, expired)
    \/ DayFiltered
    \/ /\ pc = "scan"
       /\ ~DaySkipped(range, sinceDate)
       /\ Next
    \/ /\ pc = "lookahead"
       /\ Next
    \/ Merge

SpecRefresh == InitRefresh /\ [][NextRefresh]_vars

\* between two refreshes the exchange closes one more 5m candle
CandleCloses(s) ==
    /\ pc = "idle"
    /\ Len(market) < MaxCandles
    /\ market' = Append(market, Candle(Len(market) + 1, s))
    /\ UNCHANGED <<auxVars, httpVars, batchVars, range, candlesAfterRange,
                   validBreakoutReentryPairs, scanVars, hasOpenPosition, signals,
                   breakoutsWithoutReentry, additionalCandles, pendingSignals, pc,
                   refreshVars>>

\* refreshes of fetchMultipleBreakoutSignals with candles closing in between
NextIncremental ==
    \/ NextRefresh
    \/ \E s \in CandleShapes : CandleCloses(s)

SpecIncremental == InitRefresh /\ [][NextIncremental]_vars

SpecHttp == InitRefresh /\ [][NextHttp]_vars

SpecOversold == InitRefresh /\ [][NextOversold]_vars

SpecStorage == InitRefresh /\ [][NextStorage]_vars

SpecLoop == InitRefresh /\ [][NextLoop]_vars

SpecRace == InitRefresh /\ [][NextRace]_vars

SpecNotif == InitRefresh /\ [][NextNotif]_vars

SpecFetch == InitRefresh /\ [][NextFetch]_vars

\* the exchange has returned an array of candles, in any order
InitRsi ==
    /\ BreakoutIdle
    /\ HttpIdle
    /\ BatchIdle
    /\ StorageIdle
    /\ LoopIdle
    /\ RaceIdle
    /\ NotifIdle
    /\ FetchIdle
    /\ klines \in UNION {[1..n -> Klines] : n \in 0..MaxKlines}
    /\ rsiNow \in RsiNows
    /\ rsiOut = NotCalculated
    /\ readingOut = NotFetched

SpecRsi == InitRsi /\ [][NextRsi]_vars

----------------------------------------------------------------------------
(* The detection window of a session day, lines 1393-1435 *)

FourHours == 240
UtcPlus7Offset == 420
WindowEndHour == 15

\* formatDateUTCPlus7: the calendar day of a time in UTC+7, as a day number
formatDateUTCPlus7(t) == (t + UtcPlus7Offset) \div OneDay

\* getUTCPlus7Hour
getUTCPlus7Hour(t) == ((t + UtcPlus7Offset) % OneDay) \div OneHour

\* lines 1402-1405: 24 hours after the range candle closes
nextDay15UTC7Time(r) == r.closeTime + OneDay

\* the window has no end: every candle after the range close is scanned
inDetectionWindow_noEnd(c, r) == c.closeTime > r.closeTime

\* lines 1407-1435: the predicate of the filter over fiveMinCandles
inDetectionWindow(c, r) ==
    IF c.closeTime <= r.closeTime THEN FALSE
    ELSE IF c.closeTime >= nextDay15UTC7Time(r) THEN FALSE
    ELSE IF formatDateUTCPlus7(c.closeTime) = formatDateUTCPlus7(r.closeTime) THEN TRUE
    ELSE IF formatDateUTCPlus7(c.closeTime) = formatDateUTCPlus7(r.closeTime + OneDay)
    THEN getUTCPlus7Hour(c.closeTime) < WindowEndHour
    ELSE FALSE

\* offsets from the close of the range candle at which a 5m candle may close: before
\* and at the close, right after it, before and after the next range candle opens,
\* before, at and after the close of the next range candle
WindowOffsets ==
    {0 - FiveMin, 0, FiveMin, OneDay - FourHours - FiveMin, OneDay - FourHours + FiveMin,
     OneDay - FiveMin, OneDay, OneDay + FiveMin, OneDay + OneDay}

\* what fetch5MinKlines may return for a range: candles in time order
RECURSIVE FetchedAt(_, _)
FetchedAt(r, offsets) ==
    IF offsets = {} THEN << >>
    ELSE LET first == CHOOSE x \in offsets : \A y \in offsets : x <= y
         IN  <<[closeTime |-> r.closeTime + first, close |-> Above, high |-> Above,
                low |-> Above]>> \o FetchedAt(r, offsets \ {first})

\* lines 1407-1435
FilterCandles ==
    /\ pc = "filter"
    /\ candlesAfterRange' = SelectSeq(market, LAMBDA c : inDetectionWindow(c, range))
    /\ pc' = "filtered"
    /\ UNCHANGED <<auxVars, httpVars, batchVars, range, validBreakoutReentryPairs, scanVars, hasOpenPosition, signals,
                   breakoutsWithoutReentry, additionalCandles, pendingSignals, market,
                   refreshVars>>

InitWindow ==
    /\ range \in SessionRanges
    /\ market \in {FetchedAt(range, offsets) : offsets \in SUBSET WindowOffsets}
    /\ pc = "filter"
    /\ candlesAfterRange = << >>
    /\ validBreakoutReentryPairs = << >>
    /\ firstBreakoutIndex = NoBreakout.index
    /\ firstBreakoutCandle = NoBreakout.candle
    /\ firstBreakoutTime = NoBreakout.time
    /\ firstBreakoutPrice = NoBreakout.price
    /\ firstBreakoutDirection = NoBreakout.direction
    /\ hasOpenPosition = FALSE
    /\ signals = << >>
    /\ breakoutsWithoutReentry = << >>
    /\ additionalCandles = << >>
    /\ pendingSignals = << >>
    /\ cache = << >>
    /\ cachedData = << >>
    /\ sinceDate = 0
    /\ forceRefresh = FALSE
    /\ returned = << >>
    /\ everResolved = {}
    /\ HttpIdle
    /\ BatchIdle
    /\ RsiIdle
    /\ StorageIdle
    /\ LoopIdle
    /\ RaceIdle
    /\ NotifIdle
    /\ FetchIdle

NextWindow == FilterCandles

SpecWindow == InitWindow /\ [][NextWindow]_vars

----------------------------------------------------------------------------
(* Properties *)

ClosesOutside(c, s) == c.close > s.rangeHigh \/ c.close < s.rangeLow
ClosesInside(c, s) == s.rangeLow <= c.close /\ c.close <= s.rangeHigh

\* the signals of the day as the scan holds them, in the shape they are returned
PairSignals == SignalsOf(range, validBreakoutReentryPairs)

\* index in candlesAfterRange of the candle that closes at time t
IndexOfTime(t) == (t - range.closeTime) \div FiveMin

HitsStop(s, c) ==
    IF s.breakoutDirection = "long" THEN c.low <= s.stopLoss ELSE c.high >= s.stopLoss

HitsTarget(s, c) ==
    IF s.breakoutDirection = "long" THEN c.high >= s.takeProfit ELSE c.low <= s.takeProfit

\* the candles known to have closed after the re-entry of s
KnownAfter(s) ==
    IF additionalCandles # << >> /\ additionalCandles[1].closeTime = s.reentryTime
    THEN Tail(additionalCandles)
    ELSE SelectSeq(candlesAfterRange, LAMBDA c : c.closeTime > s.reentryTime)

FirstHit(s, after) ==
    LET hits == {j \in DOMAIN after : HitsStop(s, after[j]) \/ HitsTarget(s, after[j])}
    IN  IF hits = {} THEN 0 ELSE CHOOSE j \in hits : \A m \in hits : j <= m

\* C1: every signal pairs a recorded breakout candle, closing strictly outside the
\* range, with a later candle of the same scan closing inside it, so that
\* breakoutTime < reentryTime; a day without such a pair of candles has no signal.
C1_Paired(s) ==
    \E b, e \in DOMAIN candlesAfterRange :
        /\ b < e
        /\ candlesAfterRange[b].closeTime = s.breakoutTime
        /\ candlesAfterRange[b].close = s.breakoutPrice
        /\ ClosesOutside(candlesAfterRange[b], s)
        /\ candlesAfterRange[e].closeTime = s.reentryTime
        /\ candlesAfterRange[e].close = s.reentryPrice
        /\ ClosesInside(candlesAfterRange[e], s)
        /\ s.breakoutTime < s.reentryTime

C1_SignalPairsBreakoutWithReentry ==
    /\ \A k \in DOMAIN signals : C1_Paired(signals[k])
    /\ \A k \in DOMAIN PairSignals : C1_Paired(PairSignals[k])
    /\ (\A b, e \in DOMAIN candlesAfterRange :
            ~(/\ b < e
              /\ isBreakoutAbove(candlesAfterRange[b], range)
                 \/ isBreakoutBelow(candlesAfterRange[b], range)
              /\ isReentry(candlesAfterRange[e], range)))
       => signals = << >> /\ validBreakoutReentryPairs = << >>

C1_Witness == pc = "done" /\ signals # << >>

\* C2 (as stated): the direction of a signal is long if the re-entry candle's low is
\* below rangeLow or the preceding candle closed below the range, and short if the
\* re-entry candle's high is above rangeHigh or the preceding candle closed above.
C2_AsStated ==
    \A k \in DOMAIN validBreakoutReentryPairs :
        LET p == validBreakoutReentryPairs[k]
            c == p.reentryCandle
            prev == candlesAfterRange[IndexOfTime(c.closeTime) - 1]
        IN  /\ (c.low < range.low \/ prev.close < range.low) => p.breakoutDirection = "long"
            /\ (c.high > range.high \/ prev.close > range.high) => p.breakoutDirection = "short"

\* C2 (amended): the direction is long when the re-entry candle's low is below
\* rangeLow; otherwise short when its high is above rangeHigh; otherwise it follows
\* the preceding candle, long when that candle's close or low is below rangeLow and
\* short if not. The side of the recorded breakout plays no part.
C2_DirectionOf(c, prev, r) ==
    IF c.low < r.low THEN "long"
    ELSE IF c.high > r.high THEN "short"
    ELSE IF prev.close < r.low \/ prev.low < r.low THEN "long"
    ELSE "short"

C2_DirectionFromReentrySide ==
    /\ \A k \in DOMAIN validBreakoutReentryPairs :
        LET p == validBreakoutReentryPairs[k]
            c == p.reentryCandle
            prev == candlesAfterRange[IndexOfTime(c.closeTime) - 1]
        IN  p.breakoutDirection = C2_DirectionOf(c, prev, range)
    /\ \A k \in DOMAIN signals :
        LET e == IndexOfTime(signals[k].reentryTime)
        IN  signals[k].breakoutDirection =
                C2_DirectionOf(candlesAfterRange[e], candlesAfterRange[e - 1], range)

\* a long signal after a breakout above the range, decided by the preceding candle
C2_Witness ==
    /\ pc = "done"
    /\ \E k \in DOMAIN signals :
        LET e == IndexOfTime(signals[k].reentryTime)
        IN  /\ signals[k].breakoutPrice > range.high
            /\ signals[k].breakoutDirection = "long"
            /\ candlesAfterRange[e].low >= range.low

\* C3: for every signal, risk = |entryPrice - stopLoss| is at most 1% of entryPrice,
\* and takeProfit is entryPrice + 2*risk for a long, entryPrice - 2*risk for a short.
C3_Holds(s) ==
    LET risk == Abs(s.entryPrice - s.stopLoss)
    IN  /\ risk * 100 <= s.entryPrice
        /\ s.breakoutDirection = "long" => s.takeProfit = s.entryPrice + 2 * risk
        /\ s.breakoutDirection = "short" => s.takeProfit = s.entryPrice - 2 * risk
        /\ s.breakoutDirection \in {"long", "short"}

C4_Holds(s) ==
    LET b == IndexOfTime(s.breakoutTime)
        e == IndexOfTime(s.reentryTime)
        lows == {candlesAfterRange[j].low : j \in b..e}
        highs == {candlesAfterRange[j].high : j \in b..e}
        lowest == CHOOSE x \in lows : \A y \in lows : x <= y
        highest == CHOOSE x \in highs : \A y \in highs : x >= y
    IN  /\ s.entryPrice = candlesAfterRange[e].close
        /\ s.breakoutDirection = "long" =>
              IF (s.entryPrice - lowest) * 100 > s.entryPrice
              THEN s.stopLoss * 100 = s.entryPrice * 99
              ELSE s.stopLoss = lowest
        /\ s.breakoutDirection = "short" =>
              IF (highest - s.entryPrice) * 100 > s.entryPrice
              THEN s.stopLoss * 100 = s.entryPrice * 101
              ELSE s.stopLoss = highest

C5_ScanStep ==
    (/\ pc = "scan"
     /\ Len(candlesAfterRange') = Len(candlesAfterRange) + 1
     /\ hasOpenPosition
     /\ validBreakoutReentryPairs # << >>
     /\ validBreakoutReentryPairs[Len(validBreakoutReentryPairs)].result = "pending"
     /\ HitsStop(validBreakoutReentryPairs[Len(validBreakoutReentryPairs)],
                 candlesAfterRange'[Len(candlesAfterRange')])
     /\ HitsTarget(validBreakoutReentryPairs[Len(validBreakoutReentryPairs)],
                   candlesAfterRange'[Len(candlesAfterRange')]))
    => validBreakoutReentryPairs'[Len(validBreakoutReentryPairs)].result = "loss"

C5_LookaheadStep ==
    (/\ pc = "lookahead"
     /\ pendingSignals # << >>
     /\ pendingSignals' = Tail(pendingSignals))
    => LET k == Head(pendingSignals)
           after == Tail(additionalCandles')
           first == FirstHit(signals[k], after)
       IN  (/\ first # 0
            /\ HitsStop(signals[k], after[first])
            /\ HitsTarget(signals[k], after[first]))
           => signals'[k].result = "loss"

C5_StopLossBeforeTakeProfit == [][C5_ScanStep /\ C5_LookaheadStep]_vars

\* a signal lost in the look-ahead on a candle that also reached the take-profit
C5_Witness ==
    /\ pc = "done"
    /\ additionalCandles # << >>
    /\ \E k \in DOMAIN signals :
        LET s == signals[k]
            after == KnownAfter(s)
            first == FirstHit(s, after)
        IN  /\ additionalCandles[1].closeTime = s.reentryTime
            /\ s.result = "loss"
            /\ first # 0
            /\ after[first].closeTime > candlesAfterRange[Len(candlesAfterRange)].closeTime
            /\ HitsStop(s, after[first])
            /\ HitsTarget(s, after[first])

\* the same in the scan of the day
C5_WitnessScan ==
    /\ pc = "scan"
    /\ \E k \in DOMAIN PairSignals :
        LET s == PairSignals[k]
            after == KnownAfter(s)
            first == FirstHit(s, after)
        IN  /\ s.result = "loss"
            /\ first # 0
            /\ HitsStop(s, after[first])
            /\ HitsTarget(s, after[first])

\* C6: the result of a signal is decided by the earliest candle strictly after its
\* re-entry candle that touches the stop-loss (loss) or the take-profit (win); the
\* re-entry candle never decides, and with no such candle the result is pending.
C6_Holds(s) ==
    LET after == KnownAfter(s)
        first == FirstHit(s, after)
    IN  IF first = 0 THEN s.result = "pending"
        ELSE /\ s.result # "pending"
             /\ (HitsStop(s, after[first]) /\ ~HitsTarget(s, after[first]))
                    => s.result = "loss"
             /\ (HitsTarget(s, after[first]) /\ ~HitsStop(s, after[first]))
                    => s.result = "win"

C7_Terminal(old, new) ==
    \A k \in DOMAIN old, m \in DOMAIN new :
        (SignalKey(old[k]) = SignalKey(new[m]) /\ old[k].result # "pending")
            => new[m].result = old[k].result

C7_Step ==
    /\ C7_Terminal(validBreakoutReentryPairs, validBreakoutReentryPairs')
    /\ C7_Terminal(signals, signals')
    /\ C7_Terminal(cache, cache')
    /\ \A x \in everResolved, m \in DOMAIN returned' :
           x.key = SignalKey(returned'[m]) => returned'[m].result = x.result

C8_Step ==
    (/\ pc = "scan"
     /\ firstBreakoutIndex # 0
     /\ Len(candlesAfterRange') = Len(candlesAfterRange) + 1)
    => LET candle == candlesAfterRange'[Len(candlesAfterRange')]
       IN  /\ (candle.close > range.high \/ candle.close < range.low)
                => /\ firstBreakoutIndex' = firstBreakoutIndex
                   /\ firstBreakoutTime' = firstBreakoutTime
                   /\ firstBreakoutPrice' = firstBreakoutPrice
                   /\ firstBreakoutCandle' = firstBreakoutCandle
                   /\ Len(validBreakoutReentryPairs') = Len(validBreakoutReentryPairs)
           /\ Len(validBreakoutReentryPairs') = Len(validBreakoutReentryPairs) + 1
                => LET p == validBreakoutReentryPairs'[Len(validBreakoutReentryPairs')]
                   IN  /\ p.breakoutTime = firstBreakoutTime
                       /\ p.breakoutPrice = firstBreakoutPrice
                       /\ p.breakoutCandle = firstBreakoutCandle

C8_FirstBreakoutKept == [][C8_Step]_vars

\* a signal whose breakout closed above the range and was followed, before the
\* re-entry, by a candle closing below the range
C8_Witness ==
    /\ pc = "done"
    /\ \E k \in DOMAIN signals :
        LET s == signals[k]
            b == IndexOfTime(s.breakoutTime)
            e == IndexOfTime(s.reentryTime)
        IN  /\ candlesAfterRange[b].close > range.high
            /\ s.breakoutPrice = candlesAfterRange[b].close
            /\ \E j \in (b + 1)..(e - 1) : candlesAfterRange[j].close < range.low

\* C9: when the scan of the day ends with a breakout recorded and no re-entry, that
\* breakout is reported in breakoutsWithoutReentry, with isAbove/isBelow and the
\* above/below direction telling the side its candle closed on, and no signal carries
\* its breakoutTime; a breakout that got its re-entry is never reported there.
C9_AwaitingBreakoutReported ==
    (pc \in {"lookahead", "done"} /\ candlesAfterRange # << >>)
    => /\ firstBreakoutIndex # 0 =>
            LET c == candlesAfterRange[firstBreakoutIndex]
            IN  /\ \E n \in DOMAIN breakoutsWithoutReentry :
                    LET w == breakoutsWithoutReentry[n]
                    IN  /\ w.breakoutTime = c.closeTime
                        /\ w.breakoutPrice = c.close
                        /\ w.isAbove = (c.close > range.high)
                        /\ w.isBelow = (c.close < range.low)
                        /\ w.breakoutDirection =
                               (IF c.close > range.high THEN "above" ELSE "below")
                /\ \A k \in DOMAIN signals : signals[k].breakoutTime # c.closeTime
       /\ \A n \in DOMAIN breakoutsWithoutReentry : \A k \in DOMAIN signals :
              breakoutsWithoutReentry[n].breakoutTime # signals[k].breakoutTime
       /\ firstBreakoutIndex = 0 => breakoutsWithoutReentry = << >>

\* a day with a signal and, after its position closed, a breakout that never re-enters
C9_Witness ==
    /\ pc = "done"
    /\ signals # << >>
    /\ breakoutsWithoutReentry # << >>

\* C10: every breakout followed by a re-entry inside the window of the day, with no
\* position open at the breakout, yields a signal of its own: a pair completed after
\* an earlier position closed is an additional signal and is not dropped.
C10_NoPositionOpenAt(b) ==
    \A k \in DOMAIN signals :
        signals[k].reentryTime < candlesAfterRange[b].closeTime
        => \E j \in 1..b :
              /\ candlesAfterRange[j].closeTime > signals[k].reentryTime
              /\ HitsStop(signals[k], candlesAfterRange[j])
                 \/ HitsTarget(signals[k], candlesAfterRange[j])

C11_ClosesPosition ==
    /\ pc = "scan"
    /\ hasOpenPosition
    /\ validBreakoutReentryPairs # << >>
    /\ Len(validBreakoutReentryPairs') = Len(validBreakoutReentryPairs)
    /\ validBreakoutReentryPairs[Len(validBreakoutReentryPairs)].result = "pending"
    /\ validBreakoutReentryPairs'[Len(validBreakoutReentryPairs)].result # "pending"

C11_ClosingCandleStartsNoBreakout ==
    [][C11_ClosesPosition => firstBreakoutIndex' # Len(candlesAfterRange')]_vars

C14_UniqueAndSorted(data) ==
    /\ \A k, m \in DOMAIN data : k # m => SignalKey(data[k]) # SignalKey(data[m])
    /\ \A k, m \in DOMAIN data : k < m => data[k].reentryTime >= data[m].reentryTime

C18_RetriesOnce ==
    /\ requests <= 2
    /\ (requests = 2 /\ status = RateLimited) => httpPc = "failed"

\* C19: on HTTP 418 the request function fails at once with an error and issues no
\* further request for that call; any other non-success status except 429 also raises
\* an error naming the status code, without a wait or a retry.
C19_Step ==
    /\ (requests' = requests + 1 /\ ~ResponseOk(status') /\ status' # RateLimited)
           => /\ httpPc' = "failed"
              /\ error'.code = status'
              /\ waited' = waited
    /\ httpPc = "failed" => (requests' = requests /\ httpPc' \in {"failed", "idle"})

C19_FatalStatusNotRetried == [][C19_Step]_vars

\* a 418 answered to the retry that followed a 429
C19_Witness ==
    /\ httpPc = "failed"
    /\ status = Banned
    /\ error.name = "banned"
    /\ requests = 2

\* C13: a refresh that is not forced and finds non-empty cached data whose latest
\* timestamp is T returns the cached collection unchanged and issues no exchange
\* request when the start of the current candle period, floor(now/interval)*interval,
\* is not later than T, and starts a fetch when it is later; interval is 1 hour for
\* fetchMultipleRSI and fetchOversoldHistory and 5 minutes for
\* fetchMultipleBreakoutSignals.
C13_StartOf(fn) ==
    /\ batchPc = "idle"
    /\ now' = now
    /\ gate'.fn = fn
    /\ <<gate, batchPc, batchReturned>>' # <<gate, batchPc, batchReturned>>

C13_Gate(cached, loop) ==
    (cached # << >> /\ ~gate'.force)
        => IF (now \div OneHour) * OneHour <= latestTimestamp(cached)
           THEN batchReturned' = cached /\ batchPc' = "idle" /\ requested' = {}
           ELSE batchPc' = loop

C13_Step ==
    /\ C13_StartOf("oversold") => C13_Gate(CacheGet(oversoldCache, now).data, "oversold")
    /\ C13_StartOf("rsi") => C13_Gate(CacheGet(rsiCache, now).data, "rsi")
    /\ \A T \in {now - OneMinute, now + FiveMin - OneMinute} :
           ReturnsCachedSignals(<<[reentryTime |-> T]>>, FALSE, now)
               <=> (now \div FiveMin) * FiveMin <= T

C15_AsSignals(data) ==
    [k \in DOMAIN data |->
        [reentryTime |-> data[k].timestamp,
         breakoutTime |-> data[k].timestamp - FiveMin,
         rsi |-> data[k].rsi]]

C15_MergeSignals(cached, force, fetched) ==
    uniqueSignals(SortByReentryTime(mergedSignals(cached, force, fetched)))

C15_MergeIsIdempotent ==
    batchPc = "oversold" =>
        /\ LET once == MergeEvents(oversoldCachedData, gate.force, allEvents)
           IN  MergeEvents(once, gate.force, allEvents) = once
        /\ LET cachedS == C15_AsSignals(oversoldCachedData)
               fetchedS == C15_AsSignals(allEvents)
               once == C15_MergeSignals(cachedS, gate.force, fetchedS)
           IN  C15_MergeSignals(once, gate.force, fetchedS) = once

\* the increment holds an event that is already in the cached list
C15_Witness ==
    /\ batchPc = "oversold"
    /\ symbolIndex > Len(Symbols)
    /\ \E i \in DOMAIN oversoldCachedData, j \in DOMAIN allEvents :
           EventKey(oversoldCachedData[i]) = EventKey(allEvents[j])
    /\ \E j \in DOMAIN allEvents :
           \A i \in DOMAIN oversoldCachedData :
               EventKey(oversoldCachedData[i]) # EventKey(allEvents[j])

\* C16: every event that fetchOversoldHistory returns has rsi <= rsiThreshold, no
\* two returned events have the same symbol and timestamp, and the list is ordered
\* by timestamp descending, whether it comes from the cache or from a merge.
C16_Returned ==
    /\ batchPc = "idle"
    /\ gate.fn = "oversold"

C16_ReturnedOversoldUniqueAndSorted ==
    C16_Returned =>
        /\ \A k \in DOMAIN batchReturned : batchReturned[k].rsi <= rsiThreshold
        /\ \A i, j \in DOMAIN batchReturned :
               (i # j) => (EventKey(batchReturned[i]) # EventKey(batchReturned[j]))
        /\ \A i, j \in DOMAIN batchReturned :
               (i < j) => (batchReturned[i].timestamp >= batchReturned[j].timestamp)

\* a merge of cached and fetched events was returned while some candle closed with
\* an RSI above the threshold
C16_Witness ==
    /\ C16_Returned
    /\ gate.decision = "merged"
    /\ Len(batchReturned) >= 2
    /\ \E s \in DOMAIN rsiHistory, h \in 1..Len(rsiHistory[1]) :
           rsiHistory[s][h] > rsiThreshold

\* C17: every event that fetchOversoldHistory returns closed inside the lookback
\* window, also when it is carried over through the cache.
C17_ReturnsOversold ==
    \/ C13_StartOf("oversold") /\ batchPc' = "idle"
    \/ batchPc = "oversold" /\ batchPc' = "idle"

C17_Step ==
    C17_ReturnsOversold =>
        \A k \in DOMAIN batchReturned' : batchReturned'[k].timestamp >= now - Lookback

C17_ReturnedInsideLookback == [][C17_Step]_vars

\* C20: a failure for one symbol does not abort a batch: the loop goes on with the
\* next symbol, every symbol is requested, and the batch returns the results of the
\* symbols that succeeded.
C20_Step ==
    /\ (batchPc \in {"oversold", "rsi"} /\ failedSymbols' # failedSymbols /\ failedSymbols' # {})
           => /\ batchPc' = batchPc
              /\ symbolIndex' = symbolIndex + 1
              /\ batchReturned' = batchReturned
    /\ (batchPc \in {"oversold", "rsi"} /\ batchPc' = "idle")
           => /\ requested = {Symbols[k] : k \in DOMAIN Symbols}
              /\ failedSymbols \subseteq requested
    /\ (batchPc = "oversold" /\ batchPc' = "idle")
           => \A j \in DOMAIN allEvents :
                  \E k \in DOMAIN batchReturned' :
                      EventKey(batchReturned'[k]) = EventKey(allEvents[j])
    /\ (batchPc = "rsi" /\ batchPc' = "idle")
           => \A sym \in requested \ failedSymbols :
                  \E k \in DOMAIN batchReturned' : batchReturned'[k].symbol = sym

C21_Step ==
    (inFlight' \ inFlight # {})
        => /\ inFlight = {}
           /\ Cardinality(inFlight') = 1
           /\ (outcomes = << >> \/ delayElapsed)

C21_OneRequestAtATime == [][C21_Step]_vars

\* a step of CacheUtils.set
C22_SetStep ==
    /\ storageNow' = storageNow
    /\ <<storage, lastSet, setReturned>>' # <<storage, lastSet, setReturned>>

\* C22 (as stated): when a write fails on the quota and pruning the entries older
\* than 24 hours frees enough space, the write is retried and the new entry is stored.
C22_Step ==
    (/\ C22_SetStep
     /\ lastSet'.error = "quota"
     /\ fits(clearOld(storage, storageNow), lastSet'.key, lastSet'.data))
        => storage'[lastSet'.key] =
               [present |-> TRUE, timestamp |-> storageNow, size |-> lastSet'.data]

C22_StoredAfterPruning == [][C22_Step]_vars

\* C23: CacheUtils.set never throws, and the refresh around it returns the result it
\* computed also when the write failed and the pruning did not help.
C23_Step ==
    C22_SetStep => (~setReturned'.threw /\ setReturned'.data = lastSet'.data)

C23_FailedWriteStillReturns == [][C23_Step]_vars

\* the write hit the quota, nothing was old enough to prune, the result was returned
C23_Witness ==
    /\ lastSet.error = "quota"
    /\ ~lastSet.stored
    /\ ~fits(storage, lastSet.key, lastSet.data)
    /\ setReturned = [threw |-> FALSE, data |-> lastSet.data]

\* C24: for a series of at least period+1 prices calculateRSI returns an array of the
\* same length, `period` nulls followed by numbers in [0, 100]; for a shorter series
\* it throws and returns nothing.
C24_LengthNullsAndRange ==
    rsiOut.done =>
        IF Len(klines) >= RsiPeriod + 1
        THEN /\ ~rsiOut.threw
             /\ Len(rsiOut.values) = Len(klines)
             /\ \A j \in 1..Len(klines) :
                    IF j <= RsiPeriod THEN rsiOut.values[j].null
                    ELSE /\ ~rsiOut.values[j].null
                         /\ rsiOut.values[j].d > 0
                         /\ 0 <= rsiOut.values[j].n
                         /\ rsiOut.values[j].n <= 100 * rsiOut.values[j].d
        ELSE rsiOut.threw /\ rsiOut.values = << >>

\* a series with gains and losses, long enough for the smoothing to run
C24_Witness ==
    /\ rsiOut.done
    /\ ~rsiOut.threw
    /\ Len(klines) = MaxKlines
    /\ Len(klines) > RsiPeriod + 1
    /\ 0 < rsiOut.values[Len(klines)].n
    /\ rsiOut.values[Len(klines)].n < 100 * rsiOut.values[Len(klines)].d

\* C25: at every sample where the smoothed average loss is 0, that is where no price
\* so far was lower than the one before it, the RSI is 0 whatever the average gain.
C25_NoLossSoFar(j) == \A k \in 1..(j - 1) : klines[k + 1].close >= klines[k].close

C25_ZeroLossGivesZero ==
    (rsiOut.done /\ ~rsiOut.threw) =>
        \A j \in (RsiPeriod + 1)..Len(klines) :
            C25_NoLossSoFar(j) => rsiOut.values[j].n = 0

\* a series that rises and never falls
C25_Witness ==
    /\ rsiOut.done
    /\ ~rsiOut.threw
    /\ Len(klines) = MaxKlines
    /\ C25_NoLossSoFar(Len(klines))
    /\ \E k \in 1..(Len(klines) - 1) : klines[k + 1].close > klines[k].close
    /\ rsiOut.values[Len(klines)].n = 0

\* C26 (as stated): every reading of fetchRSIFromBinance has previous_timestamp
\* strictly before timestamp, for any candle array, and its price is the close of a
\* candle closing at its timestamp.
C26_PreviousBeforeLatest ==
    (readingOut.done /\ ~readingOut.threw) =>
        /\ readingOut.reading.previous_timestamp < readingOut.reading.timestamp
        /\ \E k \in DOMAIN klines :
               /\ klines[k].closeTime = readingOut.reading.timestamp
               /\ klines[k].close = readingOut.reading.price

\* C27 (as stated): the timestamp of a reading is never the close time of a candle
\* that is still open at the fetch.
C27_TimestampOfClosedCandle ==
    (readingOut.done /\ ~readingOut.threw) => readingOut.reading.timestamp <= rsiNow

\* C28: refreshes of one cache key are not mutually excluded or coalesced: a caller
\* can start while another refresh runs, reads the cache for itself, issues its own
\* request, and its write puts its own merge under the key, whatever was written in
\* between.
C28_Step ==
    \A p \in Callers :
        /\ (racePc[p] = "idle" /\ racePc'[p] = "fetching") => raceCached'[p] = raceCache
        /\ (racePc[p] = "fetching" /\ racePc'[p] = "fetched")
               => raceRequests'[p] = raceRequests[p] + 1
        /\ (racePc[p] = "fetched" /\ racePc'[p] = "idle")
               => /\ raceCache' = raceCached[p] \cup raceFetched[p]
                  /\ lastWriter' = p
                  /\ raceRequests[p] >= 1

C28_CanStart ==
    \A p \in Callers :
        racePc[p] = "idle" => ENABLED (\E newCandle \in BOOLEAN : RaceStart(p, newCandle))

C28_RefreshesRace == [](C28_CanStart) /\ [][C28_Step]_vars

\* both callers fetched while the other's refresh was running, and the later write
\* dropped a signal that the earlier write had stored
C28_Witness ==
    /\ \A p \in Callers : racePc[p] = "idle" /\ raceRequests[p] >= 1
    /\ lastWriter # "none"
    /\ \E p \in Callers :
           /\ p # lastWriter
           /\ raceFetched[p] \ raceCache # {}

\* the signal of Scenario B: breakout close 102.00, re-entry close 98.00 with low 96.50
C29_ScenarioB(s) ==
    /\ range.high = 10000
    /\ range.low = 9500
    /\ s.breakoutPrice = 10200
    /\ s.reentryCandle.close = 9800
    /\ s.reentryCandle.low = 9650

C29_Direct(s) ==
    /\ C29_ScenarioB(s)
    /\ s.reentryTime = s.breakoutTime + FiveMin
    /\ s.breakoutCandle.low >= range.low

C30_OneSignalPerDay ==
    /\ Len(validBreakoutReentryPairs) <= 1
    /\ Len(signals) <= 1

----------------------------------------------------------------------------
\* C31: the scan of one session day leaves at most one entry for the day in
\* breakoutsWithoutReentry: a breakout still awaiting its re-entry when the scan
\* ends is listed once.
C31_ReportedOncePerDay ==
    (pc \in {"lookahead", "done"} /\ candlesAfterRange # << >>)
    => Len(breakoutsWithoutReentry) <= 1

----------------------------------------------------------------------------
\* the loop of lines 1521-1757 over the candles cs from candle i on: the pairs, the
\* open position and the first breakout it ends with
RECURSIVE ScanFrom(_, _, _, _)
ScanFrom(cs, r, i, st) ==
    IF i > Len(cs) THEN st
    ELSE LET candle == cs[i]
             pos == AfterPositionCheck(st.pairs, st.open, candle)
             fbNext == FirstBreakoutAfter(st.fb, i, candle, r)
         IN  IF pos.skip THEN ScanFrom(cs, r, i + 1, st)
             ELSE IF CreatesSignal(st.fb, candle, r)
             THEN ScanFrom(cs, r, i + 1,
                      [pairs |-> Append(pos.pairs,
                                        NewSignal(SubSeq(cs, 1, i), i, st.fb.index,
                                                  st.fb.candle, st.fb.time, st.fb.price,
                                                  st.fb.direction, r)),
                       open |-> TRUE, fb |-> fbNext])
             ELSE ScanFrom(cs, r, i + 1,
                      [pairs |-> pos.pairs, open |-> pos.open, fb |-> fbNext])

\* detectBreakoutSignals(symbol, days, null) on the candles cs: the signals of the day
FullDetection(cs, r) ==
    SignalsOf(r, SortByBreakoutTime(
        ScanFrom(cs, r, 1, [pairs |-> << >>, open |-> FALSE, fb |-> NoBreakout]).pairs))

KeysOf(data) == {SignalKey(data[k]) : k \in DOMAIN data}

\* the scan of the model and the fold agree
ScanFromAgrees ==
    (pc = "lookahead" /\ candlesAfterRange # << >>)
    => KeysOf(FullDetection(candlesAfterRange, range)) = KeysOf(signals)

\* C32: a refresh that merges returns every signal that one detection with an empty
\* cache and no since-date finds in the candles closed so far, later signals of a
\* session day whose first signal is cached included.
\* no candle closed while the refresh ran: its scan saw them all or skipped the day
C32_SameHistory == candlesAfterRange = market \/ DaySkipped(range, sinceDate)

C32_Step ==
    (pc = "done" /\ pc' = "idle" /\ C32_SameHistory)
    => KeysOf(FullDetection(market, range)) \subseteq KeysOf(returned')

C32_RefreshLosesNothing == [][C32_Step]_vars

----------------------------------------------------------------------------
\* has the position of the signal been closed by a candle of the history
ClosedSince(signal, history) ==
    CheckCandles(signal, SelectSeq(history, LAMBDA c : c.closeTime > signal.reentryTime))
        # "pending"

\* the entries of data with the key of the signal all carry a win or a loss
ShownResolved(data, signal) ==
    \A k \in DOMAIN data :
        SignalKey(data[k]) = SignalKey(signal) => data[k].result # "pending"

\* C33: a refresh that merges, run after the stop-loss or the take-profit of a cached
\* pending signal has been hit, returns and stores that signal as a win or a loss.
C33_Step ==
    (pc = "done" /\ pc' = "idle" /\ C32_SameHistory)
    => \A k \in DOMAIN cachedData :
           (cachedData[k].result = "pending" /\ ClosedSince(cachedData[k], market))
           => /\ ShownResolved(returned', cachedData[k])
              /\ ShownResolved(cache', cachedData[k])
              /\ SignalKey(cachedData[k]) \in KeysOf(returned')

C33_ClosedPositionShown == [][C33_Step]_vars

----------------------------------------------------------------------------
\* C34: a refresh of fetchMultipleBreakoutSignals that finds cached signals and
\* detects no new one, forced or not, stores the cached list again under the cache
\* key and returns it.
C34_Step ==
    (pc = "done" /\ pc' = "idle" /\ cachedData # << >> /\ signals = << >>)
    => /\ cache' = cachedData
       /\ returned' = cachedData

C34_NothingNewKeepsCache == [][C34_Step]_vars

----------------------------------------------------------------------------
\* C35: once the refreshes of the two callers have completed, the collection under
\* the cache key holds every signal that either of them fetched.
C35_NoLostUpdate ==
    (\A p \in Callers : racePc[p] = "idle")
    => \A p \in Callers : raceFetched[p] \subseteq raceCache

----------------------------------------------------------------------------
\* C36: for every signal key at most one BREAKOUT notification is sent, whatever the
\* refreshes return and however the notification checks and the completions of the
\* sends interleave.
C36_AtMostOneNotification ==
    \A key \in NotifKeys : sentNotifications[key] <= 1

----------------------------------------------------------------------------
\* the candles of the exchange that close at or after startTime, oldest first
C39_AfterStartTime == filterByStartTime(exchange, fetchArgs.startTime)

\* C39: fetch5MinKlines returns, oldest first, the first `limit` candles of the
\* exchange that close at or after startTime, however many newer candles there are.
C39_ReturnsEarliestAfterStart ==
    (fetchPc = "returned" /\ fetchArgs.startTime # 0)
    => finalData = FirstOf(C39_AfterStartTime, fetchArgs.limit)

----------------------------------------------------------------------------
\* every candle of the scan has low <= close <= high
C37_CandlesWellFormed ==
    \A k \in DOMAIN candlesAfterRange :
        /\ candlesAfterRange[k].low <= candlesAfterRange[k].close
        /\ candlesAfterRange[k].close <= candlesAfterRange[k].high

\* C37: with candles of low <= close <= high every signal has its stop-loss and its
\* take-profit on opposite sides of the entry price, the stop-loss below it for a
\* long and above it for a short, so that its risk is strictly positive.
C37_LevelsOnCorrectSides ==
    C37_CandlesWellFormed
    => \A k \in DOMAIN validBreakoutReentryPairs :
           LET s == validBreakoutReentryPairs[k]
           IN  /\ s.breakoutDirection \in {"long", "short"}
               /\ s.breakoutDirection = "long"
                      => s.stopLoss < s.entryPrice /\ s.entryPrice < s.takeProfit
               /\ s.breakoutDirection = "short"
                      => s.takeProfit < s.entryPrice /\ s.entryPrice < s.stopLoss

\* a day with a long signal whose stop is the lowest low and a short signal
C37_Witness ==
    /\ pc = "done"
    /\ C37_CandlesWellFormed
    /\ \E k \in DOMAIN signals :
           /\ signals[k].breakoutDirection = "long"
           /\ signals[k].entryPrice - signals[k].stopLoss
                  < maxAllowedRisk(signals[k].entryPrice)
    /\ \E k \in DOMAIN signals : signals[k].breakoutDirection = "short"

----------------------------------------------------------------------------
\* the scanned candles that closed after the re-entry of the signal
C38_After(s) == SelectSeq(candlesAfterRange, LAMBDA c : c.closeTime > s.reentryTime)

\* C38: in the scan of a session day at most one signal is pending; while it is, no
\* breakout is recorded; every signal but the last is resolved, and the breakout
\* candle of the next signal closes at or after the candle that resolved it.
C38_OnePositionAtATime ==
    LET pairs == validBreakoutReentryPairs
    IN  /\ \A k \in DOMAIN pairs : pairs[k].result = "pending" => k = Len(pairs)
        /\ (hasOpenPosition /\ pairs # << >> /\ pairs[Len(pairs)].result = "pending")
               => firstBreakoutIndex = 0
        /\ \A k \in DOMAIN pairs :
               k < Len(pairs)
               => LET hit == FirstHit(pairs[k], C38_After(pairs[k]))
                  IN  /\ hit # 0
                      /\ pairs[k + 1].breakoutTime
                             >= C38_After(pairs[k])[hit].closeTime

\* a day with two signals, the second one still pending when the scan ends
C38_Witness ==
    /\ pc = "lookahead"
    /\ Len(validBreakoutReentryPairs) = 2
    /\ validBreakoutReentryPairs[1].result # "pending"
    /\ validBreakoutReentryPairs[2].result = "pending"

====
